---- MODULE Spec2Model ----
(***************************************************************************)
(* Order lifecycle and position accounting of pynecore's strategy library  *)
(* (src/src/pynecore/lib/strategy/__init__.py).                            *)
(*                                                                         *)
(* Units.  Sizes are integers counting size steps (1/size_round_factor),   *)
(* prices are integers counting ticks (mintick), money is an exact         *)
(* rational <<numerator, denominator>> in step*tick.  With                 *)
(* size_round_factor = 1 and mintick = 1 these are the program's own       *)
(* numbers and its float arithmetic on them is exact.                      *)
(***************************************************************************)
EXTENDS Integers, Sequences, FiniteSets, TLC

(***************************************************************************)
(* Exact rational arithmetic for the program's float-valued money fields.  *)
(***************************************************************************)
Abs(x) == IF x < 0 THEN -x ELSE x

Sgn(x) == IF x = 0 THEN 0 ELSE IF x > 0 THEN 1 ELSE -1

RECURSIVE Gcd(_, _)
Gcd(a, b) == IF b = 0 THEN a ELSE Gcd(b, a % b)

\* n/d in lowest terms with a positive denominator, g being gcd(|n|, |d|).
Reduced(n, d, g) ==
    IF n = 0 THEN <<0, 1>>
    ELSE IF d < 0 THEN <<(-n) \div g, (-d) \div g>>
    ELSE <<n \div g, d \div g>>

Norm(n, d) == Reduced(n, d, Gcd(Abs(n), Abs(d)))

R(n) == <<n, 1>>
RZero == <<0, 1>>
\* a + b over the least common denominator, g being gcd of the two.
AddOver(a, b, g) ==
    Norm(a[1] * (b[2] \div g) + b[1] * (a[2] \div g), (a[2] \div g) * b[2])

RAdd(a, b) == AddOver(a, b, Gcd(a[2], b[2]))
RNeg(a) == <<-a[1], a[2]>>
RSub(a, b) == RAdd(a, RNeg(b))
\* a * b with the common factors g1 and g2 taken out crosswise first.
MulCross(a, b, g1, g2) ==
    IF a[1] = 0 \/ b[1] = 0 THEN <<0, 1>>
    ELSE <<(a[1] \div g1) * (b[1] \div g2), (a[2] \div g2) * (b[2] \div g1)>>

RMul(a, b) == MulCross(a, b, Gcd(Abs(a[1]), b[2]), Gcd(Abs(b[1]), a[2]))
\* Division; the callers guard against a zero divisor (ZeroDivisionError).
RDiv(a, b) == Norm(a[1] * b[2], a[2] * b[1])
RLt(a, b) == RSub(a, b)[1] < 0
RLe(a, b) == RSub(a, b)[1] <= 0
RIsZero(a) == a[1] = 0
RMax(a, b) == IF RLt(a, b) THEN b ELSE a
RMin(a, b) == IF RLt(b, a) THEN b ELSE a
\* floor of a rational
RFloor(a) == a[1] \div a[2]
\* truncation toward zero: Python's int(x)
RTrunc(a) == IF a[1] >= 0 THEN a[1] \div a[2] ELSE -((-a[1]) \div a[2])
\* round half to even: Python's round(x) and Decimal.to_integral_value()
HalfEven(a, f, twice) ==
    IF twice < a[2] THEN f
    ELSE IF twice > a[2] THEN f + 1
    ELSE IF f % 2 = 0 THEN f ELSE f + 1

RRoundHalfEven(a) == HalfEven(a, RFloor(a), 2 * (a[1] - RFloor(a) * a[2]))

(***************************************************************************)
(* Optional numbers: Python None, pynecore's NA sentinel, or a number.     *)
(***************************************************************************)
None == [k |-> "none", v |-> 0]
NA == [k |-> "na", v |-> 0]
Val(x) == [k |-> "val", v |-> x]
IsVal(x) == x.k = "val"

\* The same for the float arguments that are no prices (tick distances,
\* quantities): the number is a rational.
NoneR == [k |-> "none", v |-> <<0, 1>>]
NAR == [k |-> "na", v |-> <<0, 1>>]
ValR(x) == [k |-> "val", v |-> x]

\* The identifier None of an order without order_id (close_all, reversal).
NoneId == "<None>"

_order_type_entry == "entry"
_order_type_close == "close"

\* _is_none: true for the NA sentinel and for None.
_is_none(value) == value.k = "na" \/ value.k = "none"

(***************************************************************************)
(* State.  The fields of the Position ledger keep their names; script is   *)
(* the host's configuration (lib._script and syminfo), lib_bar the bar the *)
(* host has loaded (lib.open/high/low/close), bar_index lib.bar_index,     *)
(* lib_semaphore the reentry guard lib._lib_semaphore.                     *)
(* entry_orders and exit_orders are Python dicts: sequences of orders in   *)
(* insertion order, at most one per key.  calls counts the API calls the   *)
(* strategy has made, last_op names the last operation and fills logs the  *)
(* fill_order calls of the last operation; evals logs the orders that the  *)
(* two passes of the last process_orders have taken from their lists, and  *)
(* last_args holds the arguments of the last API call (with the number of  *)
(* orders that were pending, for the calls that cancel).                   *)
(***************************************************************************)
VARIABLES entry_orders, exit_orders, open_trades, closed_trades,
          closed_trades_count, new_closed_trades,
          wintrades, eventrades, losstrades,
          netprofit, openprofit, grossprofit, grossloss,
          size, sign, avg_price, entry_summ, open_commission,
          o, h, l, c, prev_c,
          risk_allowed_direction, risk_max_position_size,
          script, lib_bar, lib_semaphore, bar_index, calls, last_op,
          last_args, fills, evals

vars == <<entry_orders, exit_orders, open_trades, closed_trades,
          closed_trades_count, new_closed_trades,
          wintrades, eventrades, losstrades,
          netprofit, openprofit, grossprofit, grossloss,
          size, sign, avg_price, entry_summ, open_commission,
          o, h, l, c, prev_c,
          risk_allowed_direction, risk_max_position_size,
          script, lib_bar, lib_semaphore, bar_index, calls, last_op,
          last_args, fills, evals>>

\* deque(maxlen=9000): the capacity of closed_trades.
ClosedTradesMaxlen == 9000

\* math.isclose(x, 0.0, abs_tol=1 / syminfo._size_round_factor), in steps.
IsCloseToZero(x) == Abs(x) <= 1

\* Order.__init__; oca_name and oca_type have their default None, which
\* entry() replaces by its arguments.
Order(order_id, osize, order_type, exit_id, limit, stop, trail_price, trail_offset, profit_ticks, loss_ticks, trail_points_ticks) ==
    [order_id |-> order_id, size |-> osize, sign |-> Sgn(osize),
     limit |-> limit, stop |-> stop, order_type |-> order_type,
     exit_id |-> exit_id,
     oca_name |-> NoneId, oca_type |-> NoneId,
     trail_price |-> trail_price,
     trail_offset |-> IF IsVal(trail_offset) THEN trail_offset.v ELSE RZero,
     trail_triggered |-> FALSE,
     profit_ticks |-> profit_ticks, loss_ticks |-> loss_ticks,
     trail_points_ticks |-> trail_points_ticks,
     is_market_order |-> limit.k = "none" /\ stop.k = "none"
                         /\ trail_price.k = "none"]

\* Trade.__init__
Trade(tsize, entry_id, entry_bar_index, entry_price, commission, entry_equity) ==
    [size |-> tsize, sign |-> Sgn(tsize),
     entry_id |-> entry_id, entry_bar_index |-> entry_bar_index,
     entry_price |-> entry_price, entry_equity |-> entry_equity,
     exit_id |-> "", exit_bar_index |-> -1, exit_price |-> 0,
     exit_equity |-> RZero,
     commission |-> commission,
     max_drawdown |-> RZero, max_runup |-> RZero, profit |-> RZero]

\* The ledger as one value, for the operators that model the methods.
Pos ==
    [entry_orders |-> entry_orders, exit_orders |-> exit_orders,
     open_trades |-> open_trades, closed_trades |-> closed_trades,
     closed_trades_count |-> closed_trades_count,
     new_closed_trades |-> new_closed_trades,
     wintrades |-> wintrades, eventrades |-> eventrades,
     losstrades |-> losstrades,
     netprofit |-> netprofit, openprofit |-> openprofit,
     grossprofit |-> grossprofit, grossloss |-> grossloss,
     size |-> size, sign |-> sign, avg_price |-> avg_price,
     entry_summ |-> entry_summ, open_commission |-> open_commission,
     o |-> o, h |-> h, l |-> l, c |-> c, prev_c |-> prev_c,
     bar_index |-> bar_index, fills |-> <<>>, evals |-> <<>>]

\* Position.equity
equity(p) == RAdd(RAdd(R(script.initial_capital), p.netprofit), p.openprofit)

\* dict.pop(key, None) / del dict[key] on a dict of orders keyed by order_id
PopEntry(orders, key) == SelectSeq(orders, LAMBDA x : x.order_id # key)

\* dict.pop(key, None) / del dict[key] on a dict of orders keyed by exit_id
PopExit(orders, key) == SelectSeq(orders, LAMBDA x : x.exit_id # key)

HasEntry(orders, key) == \E i \in 1..Len(orders) : orders[i].order_id = key

HasExit(orders, key) == \E i \in 1..Len(orders) : orders[i].exit_id = key

\* A store that adds the order and keeps the one it had under the key.
PutEntryKeepingOld(orders, order) == Append(orders, order)

\* dict[key] = order: an existing key keeps its place, a new key goes last.
PutEntry(orders, order) ==
    IF HasEntry(orders, order.order_id)
    THEN [i \in 1..Len(orders) |->
            IF orders[i].order_id = order.order_id THEN order ELSE orders[i]]
    ELSE Append(orders, order)

PutExit(orders, order) ==
    IF HasExit(orders, order.exit_id)
    THEN [i \in 1..Len(orders) |->
            IF orders[i].exit_id = order.exit_id THEN order ELSE orders[i]]
    ELSE Append(orders, order)

\* A deque without maxlen, which evicts nothing.
DequeAppendUnbounded(dq, x) == Append(dq, x)

\* deque.append with maxlen: the oldest element is evicted on overflow.
DequeAppend(dq, x) ==
    IF Len(dq) >= ClosedTradesMaxlen THEN Append(Tail(dq), x) ELSE Append(dq, x)

RECURSIVE DequeExtend(_, _)
DequeExtend(dq, xs) ==
    IF xs = <<>> THEN dq ELSE DequeExtend(DequeAppend(dq, Head(xs)), Tail(xs))

(***************************************************************************)
(* Position._fill_order.  The operators take the ledger p and the order    *)
(* and give back both: the method mutates the order object too.            *)
(***************************************************************************)

\* A snap that zeroes the position and leaves the residual out of size.
SnapSizeDroppingResidual(selfsize, sz) ==
    IF IsCloseToZero(selfsize + sz)
    THEN [possize |-> 0, size |-> sz]
    ELSE [possize |-> selfsize + sz, size |-> sz]

\* Lines 432-440: the position, the trade and the order all move by size;
\* a position left within one step of zero is snapped to zero and the
\* residual goes into size.
SnapSize(selfsize, sz) ==
    IF IsCloseToZero(selfsize + sz)
    THEN [possize |-> 0, size |-> sz - (selfsize + sz)]
    ELSE [possize |-> selfsize + sz, size |-> sz]

\* Counters that leave an even trade uncounted and add a loss to
\* grossloss with its own sign.
CountClosedUnsigned(p, profit) ==
    IF RIsZero(profit)
    THEN p
    ELSE IF RLt(RZero, profit)
    THEN [p EXCEPT !.wintrades = @ + 1, !.grossprofit = RAdd(@, profit)]
    ELSE [p EXCEPT !.losstrades = @ + 1, !.grossloss = RAdd(@, profit)]

\* Lines 442-450: the counters and gross profit/loss of one closed trade.
CountClosed(p, profit) ==
    IF RIsZero(profit)
    THEN [p EXCEPT !.eventrades = @ + 1]
    ELSE IF RLt(RZero, profit)
    THEN [p EXCEPT !.wintrades = @ + 1, !.grossprofit = RAdd(@, profit)]
    ELSE [p EXCEPT !.losstrades = @ + 1, !.grossloss = RSub(@, profit)]

\* A close that takes every trade whole.
CloseSizeWhole(order, trade) == -trade.size

\* Line 355: the part of the order that this trade takes.
CloseSize(order, trade) ==
    IF Abs(order.size) <= Abs(trade.size) THEN order.size ELSE -trade.size

\* A split that leaves the open trade what it had.
SplitSharesKeepingAll(trade, size0) ==
    IF trade.size # -size0
    THEN [keep |-> R(1), give |-> RNeg(Norm(size0, trade.size))]
    ELSE [keep |-> R(1), give |-> R(1)]

\* Lines 361-374: the share of commission, drawdown and run-up that stays
\* with the open trade (keep) and the share that goes with the closed one
\* (give); a trade closed whole is not split.
SplitShares(trade, size0) ==
    LET Shares(size_ratio) ==
            IF trade.size # -size0
            THEN [keep |-> size_ratio, give |-> RSub(R(1), size_ratio)]
            ELSE [keep |-> R(1), give |-> R(1)]
    IN  Shares(RAdd(R(1), Norm(size0, trade.size)))

\* Lines 362-368: closed_trade.commission after the split.
SplitCommission(trade, size0, give, price) ==
    IF trade.size = -size0 THEN trade.commission
    ELSE IF script.commission_type = "percent"
    THEN RMul(trade.commission,
              RMul(give, RMul(script.commission_value, Norm(price, 100))))
    ELSE RMul(trade.commission, give)

\* A closing commission of the percent model taken on the size alone.
CloseCommissionOnSize(size0, price) ==
    RMul(R(Abs(size0)), script.commission_value)

\* Lines 413-416: the commission of the closing fill.
CloseCommission(size0, price) ==
    IF script.commission_type = "percent"
    THEN RMul(RMul(R(Abs(size0)), script.commission_value), Norm(price, 100))
    ELSE RMul(R(Abs(size0)), script.commission_value)

\* A close that takes the closed value out of entry_summ and keeps the
\* average of before.
AverageAfterCloseStale(p, closed_value) ==
    IF p.size # 0
    THEN [p EXCEPT !.entry_summ = @ - closed_value]
    ELSE [p EXCEPT !.avg_price = RZero, !.openprofit = RZero]

\* Lines 452-462: entry_summ, avg_price and openprofit of the ledger p,
\* whose size is the one after the close; closed_value is
\* closed_trade.entry_price * |closed_trade.size|.
AverageAfterClose(p, closed_value) ==
    LET Average(es, avg) ==
            [p EXCEPT !.entry_summ = es, !.avg_price = avg,
                      !.openprofit = RMul(R(p.size), RSub(R(p.c), avg))]
    IN  IF p.size # 0
        THEN Average(p.entry_summ - closed_value,
                     Norm(p.entry_summ - closed_value, Abs(p.size)))
        ELSE [p EXCEPT !.avg_price = RZero, !.openprofit = RZero]

\* Lines 409-410: commission models whose closing commission is not
\* realized per trade.
DeferredCommission ==
    script.commission_type = "cash_per_contract"
    \/ script.commission_type = "cash_per_order"

\* Lines 409-417: closed_trade.commission, c_comm0 being the share it took
\* over from the open trade.
ClosedCommission(c_comm0, size0, price) ==
    IF DeferredCommission THEN c_comm0
    ELSE RAdd(c_comm0, CloseCommission(size0, price))

\* Lines 356, 394 and 420: closed_trade.profit.
ClosedProfit(trade, size0, price, c_comm) ==
    IF DeferredCommission THEN R(-size0 * (price - trade.entry_price))
    ELSE RSub(R(-size0 * (price - trade.entry_price)), c_comm)

\* Lines 389-398, 439-440 and 465-477: what the iteration leaves in acc,
\* p1 being the ledger after lines 399-462.
CloseBooked(acc, trade, price, size0, shares, size1, c_comm, c_profit, p1) ==
    [p |-> p1,
     order |-> [acc.order EXCEPT !.size = @ - size1],
     delete |-> TRUE,
     open_trades |->
         IF trade.size + size1 = 0 THEN acc.open_trades
         ELSE Append(acc.open_trades,
                     [trade EXCEPT
                        !.commission = RMul(@, shares.keep),
                        !.max_drawdown = RMul(@, shares.keep),
                        !.max_runup = RMul(@, shares.keep),
                        !.size = @ + size1]),
     new_closed_trades |->
         Append(acc.new_closed_trades,
                [trade EXCEPT
                   !.commission = c_comm,
                   !.max_drawdown = RMul(@, shares.give),
                   !.max_runup = RMul(@, shares.give),
                   !.size = -size0,
                   !.exit_id = acc.order.exit_id,
                   !.exit_bar_index = acc.p.bar_index,
                   !.exit_price = price,
                   !.profit = c_profit,
                   !.exit_equity = equity(p1)]),
     closed_trade_size |-> acc.closed_trade_size + Abs(size0)]

\* Lines 399-462: the ledger, then the rest of the iteration.  c_comm0 is
\* closed_trade.commission after the split, c_comm the one after line 417.
CloseCharged(acc, trade, price, size0, shares, snap, c_comm0, c_comm) ==
    CloseBooked(acc, trade, price, size0, shares, snap.size, c_comm,
                ClosedProfit(trade, size0, price, c_comm),
                AverageAfterClose(
                    [CountClosed(acc.p,
                                 ClosedProfit(trade, size0, price, c_comm))
                     EXCEPT
                       !.closed_trades_count = @ + 1,
                       !.open_commission = RSub(@, c_comm0),
                       !.netprofit =
                           RAdd(IF DeferredCommission THEN @
                                ELSE RSub(@, CloseCommission(size0, price)),
                                R(-size0 * (price - trade.entry_price))),
                       !.size = snap.possize,
                       !.sign = Sgn(snap.possize)],
                    trade.entry_price * Abs(size0)))

\* Lines 361-417: the commission of the closed trade, then the rest.
CloseTaken(acc, trade, price, size0, shares, snap) ==
    CloseCharged(acc, trade, price, size0, shares, snap,
                 SplitCommission(trade, size0, shares.give, price),
                 ClosedCommission(
                     SplitCommission(trade, size0, shares.give, price),
                     size0, price))

\* An iteration that takes the trade whatever entry opened it.
CloseStepAnyTrade(acc, trade, price, h_, l_) ==
    IF acc.order.size = 0
    THEN [acc EXCEPT !.open_trades = Append(@, trade)]
    ELSE CloseTaken(acc, trade, price, CloseSize(acc.order, trade),
                    SplitShares(trade, CloseSize(acc.order, trade)),
                    SnapSize(acc.p.size, CloseSize(acc.order, trade)))

\* Lines 352-477: one iteration of the walk over open_trades.  acc holds
\* the ledger p, the order, delete, the list open_trades being rebuilt,
\* the local new_closed_trades and closed_trade_size.
CloseStep(acc, trade, price, h_, l_) ==
    IF ~(acc.order.size # 0
         /\ (trade.entry_id = acc.order.order_id
             \/ acc.order.order_id = NoneId))
    THEN [acc EXCEPT !.open_trades = Append(@, trade)]
    ELSE CloseTaken(acc, trade, price, CloseSize(acc.order, trade),
                    SplitShares(trade, CloseSize(acc.order, trade)),
                    SnapSize(acc.p.size, CloseSize(acc.order, trade)))

\* A walk that visits the newest trade first.
RECURSIVE CloseWalkNewestFirst(_, _, _, _, _)
CloseWalkNewestFirst(acc, trades, price, h_, l_) ==
    IF trades = <<>> THEN acc
    ELSE CloseStep(CloseWalkNewestFirst(acc, Tail(trades), price, h_, l_),
                   Head(trades), price, h_, l_)

\* Lines 350-477: the walk over open_trades, oldest trade first.
RECURSIVE CloseWalk(_, _, _, _, _)
CloseWalk(acc, trades, price, h_, l_) ==
    IF trades = <<>> THEN acc
    ELSE CloseWalk(CloseStep(acc, Head(trades), price, h_, l_),
                   Tail(trades), price, h_, l_)

\* A commission per order that every closed trade is charged in full.
ShareOrderCommissionInFull(trades, closed_trade_size) ==
    [i \in 1..Len(trades) |->
        [trades[i] EXCEPT !.commission = RAdd(@, script.commission_value)]]

\* Lines 484-489: cash_per_order shares the one commission among the
\* trades closed by this fill, in proportion to their sizes.
ShareOrderCommission(trades, closed_trade_size) ==
    [i \in 1..Len(trades) |->
        [trades[i] EXCEPT !.commission =
            RAdd(@, RDiv(RMul(script.commission_value, R(Abs(trades[i].size))),
                         R(closed_trade_size)))]]

\* Lines 551-557: a ledger without open trades is reset.
ResetIfFlat(p) ==
    IF p.open_trades = <<>>
    THEN [p EXCEPT !.entry_summ = 0, !.avg_price = RZero,
                   !.openprofit = RZero, !.open_commission = RZero]
    ELSE p

\* Lines 344-491: the closing branch.
FillClose(p, order, price, h_, l_) ==
    LET acc0 == [p |-> p, order |-> order, delete |-> FALSE,
                 open_trades |-> <<>>, new_closed_trades |-> <<>>,
                 closed_trade_size |-> 0]
        \* Lines 479-491, after the walk has left acc.
        AfterWalk(acc) ==
            LET per_order == acc.delete
                             /\ script.commission_type = "cash_per_order"
                closed == IF per_order
                          THEN ShareOrderCommission(acc.new_closed_trades,
                                                    acc.closed_trade_size)
                          ELSE acc.new_closed_trades
                p1 == [acc.p EXCEPT
                         !.open_trades = acc.open_trades,
                         !.exit_orders = IF acc.delete
                                         THEN PopExit(@, order.exit_id)
                                         ELSE @,
                         !.netprofit = IF per_order
                                       THEN RSub(@, script.commission_value)
                                       ELSE @,
                         !.closed_trades = DequeExtend(@, closed),
                         !.new_closed_trades = @ \o closed]
            IN  [p |-> p1, order |-> acc.order]
    IN  AfterWalk(CloseWalk(acc0, p.open_trades, price, h_, l_))

\* An opening fill that is charged per contract under every model.
EntryCommissionPerContract(osize, price) ==
    RMul(R(Abs(osize)), script.commission_value)

\* Lines 495-506: the commission of an opening fill.
EntryCommission(osize, price) ==
    IF RIsZero(script.commission_value) THEN RZero
    ELSE IF script.commission_type = "cash_per_order"
    THEN script.commission_value
    ELSE IF script.commission_type = "percent"
    THEN RMul(RMul(R(Abs(osize)), script.commission_value), Norm(price, 100))
    ELSE RMul(R(Abs(osize)), script.commission_value)

\* Lines 534-541: avg_price and openprofit of the ledger p, whose size and
\* entry_summ are the ones after the opening fill.
AverageAfterOpen(p) ==
    LET Average(avg) ==
            [p EXCEPT !.avg_price = avg,
                      !.openprofit = RMul(R(p.size), RSub(R(p.c), avg))]
    IN  Average(IF p.size = 0 THEN RZero
                ELSE Norm(p.entry_summ, Abs(p.size)))

\* Lines 508-549: the ledger with the new trade, commission being the one
\* of lines 495-506.
OpenTrade(p, order, price, commission) ==
    AverageAfterOpen(
        [p EXCEPT
           !.netprofit = RSub(@, commission),
           !.open_trades =
               Append(@, Trade(order.size, order.order_id, p.bar_index,
                               price, commission, equity(p))),
           !.size = @ + order.size,
           !.sign = Sgn(p.size + order.size),
           !.entry_summ = @ + price * Abs(order.size),
           !.open_commission = RAdd(@, commission),
           !.entry_orders =
               IF order.order_type = _order_type_entry
               THEN PopEntry(@, order.order_id) ELSE @,
           !.exit_orders =
               IF order.order_type # _order_type_entry
               THEN PopExit(@, order.exit_id) ELSE @])

\* Lines 493-549: the opening branch.
FillOpen(p, order, price) ==
    [p |-> OpenTrade(p, order, price, EntryCommission(order.size, price)),
     order |-> order]

\* Position._fill_order
_fill_order(p, order, price, h_, l_) ==
    LET Reset(r) == [p |-> ResetIfFlat(r.p), order |-> r.order]
    IN  Reset(IF p.size # 0 /\ order.order_type # _order_type_entry
                 /\ order.sign # p.sign
              THEN FillClose(p, order, price, h_, l_)
              ELSE IF order.order_type # _order_type_close
              THEN FillOpen(p, order, price)
              ELSE [p |-> p, order |-> order])

(***************************************************************************)
(* Position.fill_order                                                     *)
(***************************************************************************)

\* Lines 571-574: the size the position is heading for.
NewSize(possize, osize) ==
    LET new_size == possize + osize
    IN  IF new_size # 0 /\ ~IsCloseToZero(new_size) THEN 0 ELSE new_size

\* Lines 598-601: the new direction is not the one risk management allows.
DirectionBlocked(new_size) ==
    /\ risk_allowed_direction # "none"
    /\ \/ new_size > 0 /\ risk_allowed_direction # "long"
       \/ new_size <= 0 /\ risk_allowed_direction # "short"

\* Lines 616-617: the result of the opening fill r2 of a reversal.
Reversed(r2) == [p |-> r2.p, order |-> r2.order, ret |-> TRUE]

\* Lines 583, 596-617 and 622, after the first fill r1: nothing more
\* unless the order is split, and then the opening leg of size new_size
\* if risk management allows its direction.
AfterFirstFill(r1, order, splits, new_size, price, h_, l_) ==
    IF ~splits THEN [p |-> r1.p, order |-> r1.order, ret |-> FALSE]
    ELSE IF DirectionBlocked(new_size)
    THEN [p |-> r1.p, order |-> order, ret |-> FALSE]
    ELSE Reversed(_fill_order(
                    [r1.p EXCEPT !.entry_orders =
                        PutEntry(@, [order EXCEPT !.size = new_size])],
                    [order EXCEPT !.size = new_size], price, h_, l_))

\* Lines 576-622 without the log: the ledger, the order and the result.
\* The first fill is the order itself, or the order clamped to the
\* position (a Close order), or the closing copy order1 of a reversal.
FillOrderBody(p, order, price, h_, l_) ==
    LET new_size == NewSize(p.size, order.size)
        reverses == p.size # 0 /\ Sgn(new_size) # p.sign /\ new_size # 0
        clamps == reverses /\ order.order_type = _order_type_close
        splits == reverses /\ order.order_type # _order_type_close
        order1 == [order EXCEPT
                     !.order_type = _order_type_close,
                     !.size = -p.size,
                     !.order_id = NoneId,
                     !.exit_id = order.order_id]
    IN  AfterFirstFill(
            _fill_order(p,
                        IF clamps THEN [order EXCEPT !.size = -p.size]
                        ELSE IF splits THEN order1 ELSE order,
                        price, h_, l_),
            order, splits, new_size, price, h_, l_)

\* The order is an object shared with the pending map: what a method
\* assigns to its fields shows in the map for as long as the map holds it.
SyncOrder(p, order) ==
    IF order.order_type = _order_type_entry
    THEN IF HasEntry(p.entry_orders, order.order_id)
         THEN [p EXCEPT !.entry_orders = PutEntry(@, order)] ELSE p
    ELSE IF HasExit(p.exit_orders, order.exit_id)
         THEN [p EXCEPT !.exit_orders = PutExit(@, order)] ELSE p

\* The trades of after that this fill added to the closed trades of before.
NewlyClosed(before, after) ==
    SubSeq(after.new_closed_trades, Len(before.new_closed_trades) + 1,
           Len(after.new_closed_trades))

\* Position.fill_order, with the call recorded in fills.
fill_order(p, order, price, h_, l_) ==
    LET Record(q, r) ==
            [order |-> order, price |-> price, ret |-> r.ret,
             size_before |-> p.size, size_after |-> q.size,
             trades_before |-> p.open_trades,
             trades_after |-> q.open_trades,
             closed |-> NewlyClosed(p, q),
             avg_price_after |-> q.avg_price,
             entry_summ_before |-> p.entry_summ,
             entry_summ_after |-> q.entry_summ,
             netprofit_before |-> p.netprofit,
             netprofit_after |-> q.netprofit,
             equity_before |-> equity(p)]
        Logged(q, r) ==
            [p |-> [q EXCEPT !.fills = Append(@, Record(q, r))],
             order |-> r.order, ret |-> r.ret]
        Synced(r) == Logged(SyncOrder(r.p, r.order), r)
    IN  Synced(FillOrderBody(p, order, price, h_, l_))

(***************************************************************************)
(* The price checks of process_orders.  Each gives back the ledger and the *)
(* order.  A comparison with NA or None is false.                          *)
(***************************************************************************)

\* lib.math.round_to_mintick on a rational number of ticks
round_to_mintick(x) == RRoundHalfEven(x)

\* What a check passes on of the result r of fill_order.
Filled(r) == [p |-> r.p, order |-> r.order]

\* A stop check that fills at the stop, whatever the open.
CheckHighStopAtStop(p, order) ==
    IF IsVal(order.stop) /\ order.size > 0 /\ order.stop.v <= p.h
    THEN Filled(fill_order(p, order, order.stop.v, order.stop.v, p.l))
    ELSE [p |-> p, order |-> order]

\* Position._check_high_stop
_check_high_stop(p, order) ==
    IF IsVal(order.stop) /\ order.size > 0 /\ order.stop.v <= p.h
    THEN LET pr == IF order.stop.v >= p.o THEN order.stop.v ELSE p.o
         IN  Filled(fill_order(p, order, pr, pr, p.l))
    ELSE [p |-> p, order |-> order]

\* A trailing stop that follows the high of every bar, up or down.
TrailHighFollowing(p, order) ==
    IF order.trail_price.k # "none" /\ order.sign < 0
    THEN LET trig == order.trail_triggered
                     \/ (IsVal(order.trail_price) /\ p.h > order.trail_price.v)
             cand == round_to_mintick(RSub(R(p.h), order.trail_offset))
         IN  [order EXCEPT !.trail_triggered = trig,
                           !.stop = IF trig THEN Val(cand) ELSE @]
    ELSE order

\* Lines 641-649: the trailing stop of a sell order follows the high.
TrailHigh(p, order) ==
    IF order.trail_price.k # "none" /\ order.sign < 0
    THEN LET trig == order.trail_triggered
                     \/ (IsVal(order.trail_price) /\ p.h > order.trail_price.v)
             cand == round_to_mintick(RSub(R(p.h), order.trail_offset))
             stop1 == IF ~trig THEN order.stop
                      ELSE IF IsVal(order.stop) /\ order.stop.v > cand
                      THEN order.stop ELSE Val(cand)
         IN  [order EXCEPT !.trail_triggered = trig, !.stop = stop1]
    ELSE order

\* Position._check_high
_check_high(p, order) ==
    LET pr == IF order.limit.v >= p.o THEN order.limit.v ELSE p.o
        Trailed(q, order1) == [p |-> SyncOrder(q, order1), order |-> order1]
        Trail(r) == Trailed(r.p, TrailHigh(r.p, r.order))
    IN  Trail(IF IsVal(order.limit) /\ order.size < 0 /\ order.limit.v <= p.h
              THEN Filled(fill_order(p, order, pr, pr, p.l))
              ELSE [p |-> p, order |-> order])

\* Position._check_low_stop
_check_low_stop(p, order) ==
    IF IsVal(order.stop) /\ order.size < 0 /\ order.stop.v >= p.l
    THEN LET pr == IF p.o <= order.stop.v THEN p.o ELSE order.stop.v
         IN  Filled(fill_order(p, order, pr, p.h, pr))
    ELSE [p |-> p, order |-> order]

\* Lines 668-676: the trailing stop of a buy order follows the low.
TrailLow(p, order) ==
    IF order.trail_price.k # "none" /\ order.sign > 0
    THEN LET trig == order.trail_triggered
                     \/ (IsVal(order.trail_price) /\ p.l < order.trail_price.v)
             cand == round_to_mintick(RAdd(R(p.l), order.trail_offset))
             stop1 == IF ~trig THEN order.stop
                      ELSE IF IsVal(order.stop) /\ order.stop.v < cand
                      THEN order.stop ELSE Val(cand)
         IN  [order EXCEPT !.trail_triggered = trig, !.stop = stop1]
    ELSE order

\* Position._check_low
_check_low(p, order) ==
    LET pr == IF p.o <= order.limit.v THEN p.o ELSE order.limit.v
        Trailed(q, order1) == [p |-> SyncOrder(q, order1), order |-> order1]
        Trail(r) == Trailed(r.p, TrailLow(r.p, r.order))
    IN  Trail(IF IsVal(order.limit) /\ order.size > 0 /\ order.limit.v >= p.l
              THEN Filled(fill_order(p, order, pr, p.h, pr))
              ELSE [p |-> p, order |-> order])

\* Position._check_close
_check_close(p, order, ohlc) ==
    IF ~IsVal(order.stop) THEN [p |-> p, order |-> order]
    ELSE IF (ohlc /\ order.stop.v <= p.c) \/ order.stop.v >= p.c
    THEN Filled(fill_order(p, order, order.stop.v,
                           IF ohlc /\ order.stop.v <= p.c
                           THEN order.stop.v ELSE p.h,
                           IF ohlc /\ order.stop.v <= p.c
                           THEN p.l ELSE order.stop.v))
    ELSE [p |-> p, order |-> order]

(***************************************************************************)
(* Position.process_orders                                                 *)
(***************************************************************************)

\* _price_round: price in ticks (a rational, or NA), direction a sign.
_price_round(price, direction) ==
    LET ppmt == Norm(RRoundHalfEven(RMul(price, R(100000))), 100000)
        ppmt_int == RTrunc(ppmt)
    IN  IF direction < 0 THEN ppmt_int
        ELSE IF ppmt = R(ppmt_int) THEN ppmt_int
        ELSE ppmt_int + 1

\* Lines 711-716: the entry price of the first open trade with this id.
RECURSIVE FindEntryPrice(_, _)
FindEntryPrice(trades, id) ==
    IF trades = <<>> THEN None
    ELSE IF Head(trades).entry_id = id THEN Val(Head(trades).entry_price)
    ELSE FindEntryPrice(Tail(trades), id)

\* Lines 719-736 and 782-799: limit, stop and trail_price from the tick
\* distances of an exit order, once the entry price is known.
ResolveTicks(order, entry_price) ==
    LET direction == IF order.size < 0 THEN 1 ELSE -1
    IN  [order EXCEPT
           !.limit = IF order.profit_ticks.k # "none" /\ _is_none(order.limit)
                     THEN Val(_price_round(
                            RAdd(R(entry_price),
                                 RMul(R(direction), order.profit_ticks.v)),
                            direction))
                     ELSE @,
           !.stop = IF order.loss_ticks.k # "none" /\ _is_none(order.stop)
                    THEN Val(_price_round(
                           RSub(R(entry_price),
                                RMul(R(direction), order.loss_ticks.v)),
                           -direction))
                    ELSE @,
           !.trail_price =
                    IF order.trail_points_ticks.k # "none"
                       /\ _is_none(order.trail_price)
                    THEN Val(_price_round(
                           RAdd(R(entry_price),
                                RMul(R(direction), order.trail_points_ticks.v)),
                           direction))
                    ELSE @]

\* Lines 710-736: pass 1 resolves the ticks of every exit order with an id.
Resolve1(p, order) ==
    LET ep == FindEntryPrice(p.open_trades, order.order_id)
    IN  IF order.order_type = _order_type_close /\ order.order_id # NoneId
           /\ IsVal(ep)
        THEN ResolveTicks(order, ep.v)
        ELSE order

\* Lines 770-799: pass 2 resolves them only if neither limit nor stop is set.
Resolve2(p, order) ==
    IF (order.profit_ticks.k # "none" \/ order.loss_ticks.k # "none"
        \/ order.trail_points_ticks.k # "none")
       /\ _is_none(order.limit) /\ _is_none(order.stop)
    THEN Resolve1(p, order)
    ELSE order

\* Lines 761 and 765: the limit check after the stop check r.
ThenHigh(r) == _check_high(r.p, r.order).p

ThenLow(r) == _check_low(r.p, r.order).p

\* Lines 738-765 for the order with its ticks resolved; p0 is the ledger
\* that holds it.
Pass1Resolved(p0, order, ohlc) ==
    IF order.is_market_order
    THEN fill_order(p0, order,
                    IF script.slippage > 0
                    THEN p0.prev_c + script.slippage * order.sign
                    ELSE p0.prev_c,
                    IF ohlc THEN p0.o ELSE p0.l,
                    IF ohlc THEN p0.l ELSE p0.o).p
    ELSE IF ohlc THEN ThenHigh(_check_high_stop(p0, order))
    ELSE ThenLow(_check_low_stop(p0, order))

\* The loop of pass n takes the order from its list, with the trailing
\* state it has at that time.
Evaluated(p, order, n) ==
    [p EXCEPT !.evals = Append(@, [pass |-> n,
                                   order_type |-> order.order_type,
                                   order_id |-> order.order_id,
                                   exit_id |-> order.exit_id,
                                   trail_triggered |-> order.trail_triggered,
                                   stop |-> order.stop])]

\* Lines 710-765: one order in pass 1.
Pass1Step(p, order0, ohlc) ==
    Pass1Resolved(SyncOrder(Evaluated(p, order0, 1), Resolve1(p, order0)),
                  Resolve1(p, order0), ohlc)

\* Lines 811-812, after the two checks have left r2.
ThenClose(r2, ohlc) ==
    IF r2.order.trail_triggered /\ r2.order.stop.k # "none"
    THEN _check_close(r2.p, r2.order, ohlc).p
    ELSE r2.p

\* Lines 805 and 809: the limit check after the stop check r1.
ThenLimit(r1, ohlc) ==
    ThenClose(IF ohlc THEN _check_low(r1.p, r1.order)
              ELSE _check_high(r1.p, r1.order), ohlc)

\* Lines 801-812 for the order with its ticks resolved.
Pass2Resolved(p0, order, ohlc) ==
    ThenLimit(IF ohlc THEN _check_low_stop(p0, order)
              ELSE _check_high_stop(p0, order), ohlc)

\* Lines 769-812: one order in pass 2.
Pass2Step(p, order0, ohlc) ==
    Pass2Resolved(SyncOrder(Evaluated(p, order0, 2), Resolve2(p, order0)),
                  Resolve2(p, order0), ohlc)

RECURSIVE Pass1(_, _, _)
Pass1(p, orders, ohlc) ==
    IF orders = <<>> THEN p
    ELSE Pass1(Pass1Step(p, Head(orders), ohlc), Tail(orders), ohlc)

RECURSIVE Pass2(_, _, _)
Pass2(p, orders, ohlc) ==
    IF orders = <<>> THEN p
    ELSE Pass2(Pass2Step(p, Head(orders), ohlc), Tail(orders), ohlc)

\* A second pass that takes the exit orders first.
SecondPassExitsFirst(p1, ohlc) ==
    Pass2(p1, p1.exit_orders \o p1.entry_orders, ohlc)

\* Line 768: pass 2 walks the orders that pass 1 has left.
SecondPass(p1, ohlc) == Pass2(p1, p1.entry_orders \o p1.exit_orders, ohlc)

RMin3(a, b, d) == RMin(a, RMin(b, d))

RMax3(a, b, d) == RMax(a, RMax(b, d))

\* Lines 820-832: the mark of one open trade at the end of the bar.
MarkOpenTrade(p, trade) ==
    LET hprofit == RSub(RMul(R(trade.size), RSub(R(p.h), p.avg_price)),
                        trade.commission)
        lprofit == RSub(RMul(R(trade.size), RSub(R(p.l), p.avg_price)),
                        trade.commission)
        drawdown == RNeg(RMin3(hprofit, lprofit, RZero))
        runup == RMax3(hprofit, lprofit, RZero)
    IN  [trade EXCEPT
           !.profit = RSub(R(trade.size * (p.c - trade.entry_price)),
                           RMul(R(2), trade.commission)),
           !.max_drawdown = RMax(drawdown, @),
           !.max_runup = RMax(runup, @)]

\* Lines 863-887: drawdown and run-up of one trade closed in this bar.
MarkClosedTrade(p, ct) ==
    LET dd0 == RNeg(RMin3(ct.profit, RNeg(ct.max_drawdown), RZero))
        ru0 == RMax3(ct.profit, ct.max_runup, RZero)
        hprofit == RSub(R(ct.size * (p.h - ct.entry_price)), ct.commission)
        lprofit == RSub(R(ct.size * (p.l - ct.entry_price)), ct.commission)
        same_bar == ct.entry_bar_index = ct.exit_bar_index
    IN  [ct EXCEPT
           !.max_drawdown =
               IF same_bar
               THEN RMin(RNeg(RMin3(hprofit, lprofit, RZero)), ct.profit)
               ELSE dd0,
           !.max_runup =
               IF same_bar
               THEN RMin(RMax3(hprofit, lprofit, RZero), ct.profit)
               ELSE ru0]

\* new_closed_trades and closed_trades hold the same Trade objects: what is
\* assigned to the trades closed in this bar shows in the tail of the deque.
ReplaceTail(dq, xs) ==
    LET n == IF Len(xs) <= Len(dq) THEN Len(xs) ELSE Len(dq)
    IN  SubSeq(dq, 1, Len(dq) - n) \o SubSeq(xs, Len(xs) - n + 1, Len(xs))

\* Lines 814-913: unrealized profit, then the per-trade extremes.
EndOfBar(p) ==
    LET p1 == IF p.open_trades # <<>>
              THEN [p EXCEPT
                      !.openprofit = RMul(R(p.size),
                                          RSub(R(p.c), p.avg_price)),
                      !.open_trades =
                          [i \in 1..Len(p.open_trades) |->
                              MarkOpenTrade(p, p.open_trades[i])]]
              ELSE p
        marked == [i \in 1..Len(p1.new_closed_trades) |->
                      MarkClosedTrade(p1, p1.new_closed_trades[i])]
    IN  [p1 EXCEPT !.new_closed_trades = marked,
                   !.closed_trades = ReplaceTail(@, marked)]

\* The host loads the next bar: prev_c is the close of the bar that ends,
\* lib.bar_index advances.
LoadBar(p) ==
    [p EXCEPT !.prev_c = lib_bar.close, !.bar_index = @ + 1]

\* Position.process_orders on the bar (open, high, low, close) of lib.
ProcessOrders(p, bar) ==
    LET p0 == [p EXCEPT
                 !.o = round_to_mintick(bar.open),
                 !.h = round_to_mintick(bar.high),
                 !.l = round_to_mintick(bar.low),
                 !.c = round_to_mintick(bar.close),
                 !.prev_c = round_to_mintick(p.prev_c),
                 !.new_closed_trades = <<>>]
        ohlc == Abs(p0.h - p0.o) < Abs(p0.l - p0.o)
    IN  EndOfBar(SecondPass(Pass1(p0, p0.entry_orders \o p0.exit_orders,
                                  ohlc), ohlc))

(***************************************************************************)
(* The strategy API.  Each operator gives the ledger after the call; a     *)
(* call that returns early gives the ledger back unchanged.                *)
(***************************************************************************)

\* _size_round on a quantity in steps: Decimal floor to a tenth of a step,
\* then Decimal.to_integral_value() in the default context (half even).
_size_round(qty) ==
    LET sgn == IF RLt(RZero, qty) THEN 1 ELSE -1
        mag == IF RLt(qty, RZero) THEN RNeg(qty) ELSE qty
        qrf == RFloor(RMul(mag, R(10)))
    IN  sgn * RRoundHalfEven(Norm(qrf, 10))

\* Position.risk_halt_trading: the class default; nothing in the module
\* assigns it.
risk_halt_trading == FALSE

\* Lines 1131-1177: the quantity of an entry() call without qty.
DefaultQty(p) ==
    LET price == RMul(lib_bar.close, script.pointvalue)
        target == RMul(equity(p), RMul(script.default_qty_value, Norm(1, 100)))
        free == RSub(target, script.commission_value)
    IN  IF script.default_qty_type = "fixed" THEN script.default_qty_value
        ELSE IF script.default_qty_type = "percent_of_equity"
        THEN IF script.commission_type = "percent"
             THEN RDiv(target,
                       RMul(price, RAdd(R(1), RMul(script.commission_value,
                                                   Norm(1, 100)))))
             ELSE IF script.commission_type = "cash_per_contract"
             THEN RDiv(target, RAdd(price, script.commission_value))
             ELSE IF script.commission_type = "cash_per_order"
             THEN RMax(RZero, RDiv(free, price))
             ELSE RDiv(target, price)
        ELSE RDiv(script.default_qty_value, price)

\* Lines 1206-1214: the cap on the position size clamps the size; stop
\* stands for the early return when nothing is left under the cap.
CapSize(p, size_, sign_) ==
    LET sum == RAdd(R(p.size), size_)
        new_position_size == IF RLt(sum, RZero) THEN RNeg(sum) ELSE sum
        over == IsVal(risk_max_position_size)
                /\ RLt(risk_max_position_size.v, new_position_size)
        max_allowed_size == RSub(risk_max_position_size.v, R(Abs(p.size)))
    IN  [stop |-> over /\ RLe(max_allowed_size, RZero),
         size |-> IF over THEN RMul(max_allowed_size, R(sign_)) ELSE size_]

\* entry(id, direction, qty, limit, stop, oca_name, oca_type)
entry(p, id, direction, qty, limit, stop, oca_name, oca_type) ==
    LET qty1 == IF qty.k = "na" THEN DefaultQty(p) ELSE qty.v
        direction_sign == IF direction = "short" THEN -1 ELSE 1
        margin == IF direction = "short" THEN script.margin_short
                  ELSE script.margin_long
        size0 == RDiv(RMul(qty1, R(direction_sign)), margin)
        sign0 == Sgn(size0[1])
        pyramided == p.size # 0 /\ p.sign = sign0
                     /\ script.pyramiding <= Len(p.open_trades)
        blocked == /\ risk_allowed_direction # "none"
                   /\ \/ sign0 > 0 /\ risk_allowed_direction # "long"
                      \/ sign0 < 0 /\ risk_allowed_direction # "short"
                   /\ (p.size = 0 \/ p.sign = sign0)
        capped == CapSize(p, size0, sign0)
        size2 == _size_round(capped.size)
        limit1 == IF limit.k # "none"
                  THEN Val(_price_round(limit.v, direction_sign)) ELSE None
        stop1 == IF stop.k # "none"
                 THEN Val(_price_round(stop.v, -direction_sign)) ELSE None
        order == [Order(id, size2, _order_type_entry, NoneId, limit1, stop1,
                        None, NoneR, NoneR, NoneR, NoneR)
                  EXCEPT !.oca_name = oca_name, !.oca_type = oca_type]
    IN  IF lib_semaphore THEN p
        ELSE IF risk_halt_trading THEN p
        ELSE IF RLe(qty1, RZero) THEN p
        ELSE IF pyramided \/ blocked THEN p
        ELSE IF capped.stop \/ size2 = 0 THEN p
        ELSE [p EXCEPT !.entry_orders = PutEntry(@, order)]

\* Lines 1287-1322: exit()'s inner _exit() for one target.  st holds the
\* ledger and the nonlocal limit, stop and trail_price, which keep the
\* rounding of the calls before.
ExitOne(st, id, target, qty, qty_percent, profit, loss, trail_points, trail_offset) ==
    LET size0 == IF qty.k = "na"
                 THEN IF qty_percent.k # "na"
                      THEN RMul(R(-target.size),
                                RMul(qty_percent.v, Norm(1, 100)))
                      ELSE R(-target.size)
                 ELSE RMul(R(-target.direction), qty.v)
        size1 == _size_round(size0)
        only_trail == st.limit.k = "na" /\ st.stop.k = "na"
                      /\ st.trail_price.k # "na"
        limit1 == IF st.limit.k # "na"
                  THEN ValR(R(_price_round(st.limit.v, target.direction)))
                  ELSE st.limit
        stop1 == IF st.stop.k # "na"
                 THEN ValR(R(_price_round(st.stop.v, -target.direction)))
                 ELSE st.stop
        trail1 == IF st.trail_price.k # "na"
                  THEN ValR(R(_price_round(st.trail_price.v, target.direction)))
                  ELSE st.trail_price
        asPrice(x) == IF x.k = "val" THEN Val(x.v[1]) ELSE NA
        asTicks(x) == IF x.k = "na" THEN NoneR ELSE x
        order == Order(target.from_entry, size1, _order_type_close, id,
                       asPrice(limit1), asPrice(stop1), asPrice(trail1),
                       trail_offset, asTicks(profit), asTicks(loss),
                       asTicks(trail_points))
    IN  IF size1 = 0 \/ only_trail THEN st
        ELSE [p |-> [st.p EXCEPT !.exit_orders = PutExit(@, order)],
              limit |-> limit1, stop |-> stop1, trail_price |-> trail1]

RECURSIVE ExitAll(_, _, _, _, _, _, _, _, _)
ExitAll(st, id, targets, qty, qty_percent, profit, loss, trail_points, trail_offset) ==
    IF targets = <<>> THEN st
    ELSE ExitAll(ExitOne(st, id, Head(targets), qty, qty_percent, profit,
                         loss, trail_points, trail_offset),
                 id, Tail(targets), qty, qty_percent, profit, loss,
                 trail_points, trail_offset)

OrderTarget(order) ==
    [direction |-> order.sign, size |-> order.size,
     from_entry |-> order.order_id]

TradeTarget(trade) ==
    [direction |-> trade.sign, size |-> trade.size,
     from_entry |-> trade.entry_id]

\* Lines 1324-1355: the pending entries and open trades an exit() call is
\* for, in the order the call visits them.  from_entry "" is the default.
ExitTargets(p, from_entry) ==
    LET pending == SelectSeq(p.entry_orders,
                             LAMBDA x : x.order_id = from_entry)
        opened == SelectSeq(p.open_trades, LAMBDA t : t.entry_id = from_entry)
        all_pending == [i \in 1..Len(p.entry_orders) |->
                           OrderTarget(p.entry_orders[i])]
        all_opened == [i \in 1..Len(p.open_trades) |->
                          TradeTarget(p.open_trades[i])]
    IN  IF from_entry # ""
        THEN IF pending = <<>>
             THEN [i \in 1..Len(opened) |-> TradeTarget(opened[i])]
             ELSE <<OrderTarget(pending[1])>>
        ELSE IF all_pending # <<>> THEN all_pending ELSE all_opened

\* exit(id, from_entry, qty, qty_percent, profit, limit, loss, stop,
\*      trail_price, trail_points, trail_offset)
exit(p, id, from_entry, qty, qty_percent, profit, limit, loss, stop, trail_price, trail_points, trail_offset) ==
    IF lib_semaphore THEN p
    ELSE IF qty.k = "val" /\ RLt(qty.v, RZero) THEN p
    ELSE ExitAll([p |-> p, limit |-> limit, stop |-> stop,
                  trail_price |-> trail_price],
                 id, ExitTargets(p, from_entry), qty, qty_percent, profit,
                 loss, trail_points, trail_offset).p

\* Lines 1060-1065 and 1092-1097: immediately fills at the bar of lib.
FillImmediately(p, order) ==
    fill_order(p, order, round_to_mintick(lib_bar.close),
               round_to_mintick(lib_bar.high),
               round_to_mintick(lib_bar.low)).p

\* close(id, qty, qty_percent, immediately)
close(p, id, qty, qty_percent, immediately) ==
    LET size0 == IF qty.k = "na"
                 THEN IF qty_percent.k # "na"
                      THEN RMul(R(-p.size), RMul(qty_percent.v, Norm(1, 100)))
                      ELSE R(-p.size)
                 ELSE RMul(R(-p.sign), qty.v)
        size1 == _size_round(size0)
        exit_id == "Close entry(s) order " \o id
        order == Order(id, size1, _order_type_close, exit_id, None, None,
                       None, NoneR, NoneR, NoneR, NoneR)
        p1 == [p EXCEPT !.exit_orders = PutExit(@, order)]
    IN  IF lib_semaphore THEN p
        ELSE IF qty.k = "val" /\ RLe(qty.v, RZero) THEN p
        ELSE IF p.size = 0 THEN p
        ELSE IF size1 = 0 THEN p
        ELSE IF immediately THEN FillImmediately(p1, order)
        ELSE p1

\* A close_all that places its order on a flat position too.
CloseAllWhenFlat(p, immediately) ==
    LET order == Order(NoneId, -p.size, _order_type_close,
                       "Close position order", None, None, None,
                       NoneR, NoneR, NoneR, NoneR)
        p1 == [p EXCEPT !.exit_orders = PutExit(@, order)]
    IN  IF lib_semaphore THEN p
        ELSE IF immediately THEN FillImmediately(p1, order)
        ELSE p1

\* close_all(immediately)
close_all(p, immediately) ==
    LET exit_id == "Close position order"
        order == Order(NoneId, -p.size, _order_type_close, exit_id, None,
                       None, None, NoneR, NoneR, NoneR, NoneR)
        p1 == [p EXCEPT !.exit_orders = PutExit(@, order)]
    IN  IF lib_semaphore THEN p
        ELSE IF p.size = 0 THEN p
        ELSE IF immediately THEN FillImmediately(p1, order)
        ELSE p1

\* A cancel that looks for the id among the entry orders only.
CancelEntryOnly(p, id) == [p EXCEPT !.entry_orders = PopEntry(@, id)]

\* cancel(id)
cancel(p, id) ==
    IF lib_semaphore THEN p
    ELSE [p EXCEPT !.entry_orders = PopEntry(@, id),
                   !.exit_orders = PopExit(@, id)]

\* A cancel_all that does not look at the reentry guard.
CancelAllUnguarded(p) ==
    [p EXCEPT !.entry_orders = <<>>, !.exit_orders = <<>>]

\* cancel_all()
cancel_all(p) ==
    IF lib_semaphore THEN p
    ELSE [p EXCEPT !.entry_orders = <<>>, !.exit_orders = <<>>]

(***************************************************************************)
(* Bounds and input sets.                                                  *)
(***************************************************************************)
\* API calls the strategy makes in a run.
MaxCalls == 3

\* Bars the host feeds after the first one.
MaxBars == 2

EntryIds == {"A", "B"}

ExitIds == {"X"}

Directions == {"long", "short"}

\* The qty, limit and stop of entry(): market orders of 5 and 8 steps, a
\* limit and a stop order of the default quantity off the tick grid.
EntryArgs ==
    {[qty |-> ValR(R(5)), limit |-> NoneR, stop |-> NoneR],
     [qty |-> ValR(R(8)), limit |-> NoneR, stop |-> NoneR],
     [qty |-> NAR, limit |-> ValR(Norm(19, 2)), stop |-> NoneR],
     [qty |-> NAR, limit |-> NoneR, stop |-> ValR(Norm(21, 2))]}

\* The qty of close(): absent (the whole position) or 4 steps.
CloseQtys == {NAR, ValR(R(4))}

\* The from_entry of exit(): the default "" or an entry id.
ExitFroms == {"", "A"}

\* The prices of exit(): a take-profit limit, a stop, tick distances for
\* both, and a trailing stop given in ticks.
ExitArgs ==
    {[profit |-> NAR, limit |-> ValR(R(11)), loss |-> NAR, stop |-> NAR,
      trail_price |-> NAR, trail_points |-> NAR, trail_offset |-> NAR],
     [profit |-> NAR, limit |-> NAR, loss |-> NAR, stop |-> ValR(R(9)),
      trail_price |-> NAR, trail_points |-> NAR, trail_offset |-> NAR],
     [profit |-> ValR(R(1)), limit |-> NAR, loss |-> ValR(R(1)), stop |-> NAR,
      trail_price |-> NAR, trail_points |-> NAR, trail_offset |-> NAR],
     [profit |-> NAR, limit |-> NAR, loss |-> NAR, stop |-> NAR,
      trail_price |-> NAR, trail_points |-> ValR(R(1)),
      trail_offset |-> ValR(R(1))]}

\* Bars (open, high, low, close) in ticks: one that goes up first, one that
\* goes down first.
Bar(o_, h_, l_, c_) == [open |-> R(o_), high |-> R(h_), low |-> R(l_), close |-> R(c_)]

Bars == {Bar(10, 11, 8, 10), Bar(10, 12, 9, 11)}

FirstBar == Bar(10, 11, 9, 10)

\* The host's configuration (lib._script): capital, commission, pyramiding.
ScriptOf(ctype, cvalue, pyr) ==
    [initial_capital |-> 1000, commission_type |-> ctype,
     commission_value |-> cvalue, pyramiding |-> pyr, slippage |-> 0,
     default_qty_type |-> "fixed", default_qty_value |-> R(6),
     margin_long |-> R(1), margin_short |-> R(1), pointvalue |-> R(1)]

\* The configurations of a run: no commission and no restriction, or a
\* commission of 10 percent and long positions only.
Configs ==
    {[script |-> ScriptOf("percent", RZero, 2), direction |-> "none"],
     [script |-> ScriptOf("percent", R(10), 2), direction |-> "long"]}

(***************************************************************************)
(* The state machine.                                                      *)
(***************************************************************************)
\* Position.__init__ and the first bar of the host.
InitLedger ==
    /\ entry_orders = <<>> /\ exit_orders = <<>>
    /\ open_trades = <<>> /\ closed_trades = <<>>
    /\ closed_trades_count = 0 /\ new_closed_trades = <<>>
    /\ wintrades = 0 /\ eventrades = 0 /\ losstrades = 0
    /\ netprofit = RZero /\ openprofit = RZero
    /\ grossprofit = RZero /\ grossloss = RZero
    /\ size = 0 /\ sign = 0 /\ avg_price = RZero
    /\ entry_summ = 0 /\ open_commission = RZero
    /\ o = 0 /\ h = 0 /\ l = 0 /\ c = 0 /\ prev_c = 0
    /\ lib_bar = FirstBar
    /\ lib_semaphore = FALSE
    /\ bar_index = 0
    /\ calls = 0
    /\ last_op = "init"
    /\ last_args = [id |-> NoneId]
    /\ fills = <<>>
    /\ evals = <<>>

Init ==
    /\ InitLedger
    /\ \E cfg \in Configs :
          /\ script = cfg.script
          /\ risk_allowed_direction = cfg.direction
    /\ risk_max_position_size = NoneR

\* The ledger after an operation becomes the state.
Commit(p) ==
    /\ entry_orders' = p.entry_orders /\ exit_orders' = p.exit_orders
    /\ open_trades' = p.open_trades /\ closed_trades' = p.closed_trades
    /\ closed_trades_count' = p.closed_trades_count
    /\ new_closed_trades' = p.new_closed_trades
    /\ wintrades' = p.wintrades /\ eventrades' = p.eventrades
    /\ losstrades' = p.losstrades
    /\ netprofit' = p.netprofit /\ openprofit' = p.openprofit
    /\ grossprofit' = p.grossprofit /\ grossloss' = p.grossloss
    /\ size' = p.size /\ sign' = p.sign /\ avg_price' = p.avg_price
    /\ entry_summ' = p.entry_summ /\ open_commission' = p.open_commission
    /\ o' = p.o /\ h' = p.h /\ l' = p.l /\ c' = p.c /\ prev_c' = p.prev_c
    /\ bar_index' = p.bar_index
    /\ fills' = p.fills
    /\ evals' = p.evals

\* The arguments of an operation that takes none.
NoArgs == [id |-> NoneId]

\* An API call of the strategy on the current bar.
Call(name, args, p) ==
    /\ calls' = calls + 1
    /\ last_op' = name
    /\ last_args' = args
    /\ Commit(p)
    /\ UNCHANGED <<risk_allowed_direction, risk_max_position_size, script,
                   lib_bar, lib_semaphore>>

ApiCall(name, args, p) == calls < MaxCalls /\ Call(name, args, p)

Entry ==
    \E id \in EntryIds, direction \in Directions, a \in EntryArgs :
        ApiCall("entry",
                [id |-> id, direction |-> direction, qty |-> a.qty,
                 limit |-> a.limit, stop |-> a.stop],
                entry(Pos, id, direction, a.qty, a.limit, a.stop,
                      NoneId, NoneId))

Exit ==
    \E id \in ExitIds, from_entry \in ExitFroms, a \in ExitArgs :
        ApiCall("exit", [id |-> id, from_entry |-> from_entry, prices |-> a],
                exit(Pos, id, from_entry, NAR, NAR, a.profit, a.limit,
                     a.loss, a.stop, a.trail_price, a.trail_points,
                     a.trail_offset))

Close ==
    \E id \in EntryIds, qty \in CloseQtys, immediately \in BOOLEAN :
        ApiCall("close",
                [id |-> id, qty |-> qty, immediately |-> immediately],
                close(Pos, id, qty, NAR, immediately))

CloseAll ==
    \E immediately \in BOOLEAN :
        ApiCall("close_all", [immediately |-> immediately],
                close_all(Pos, immediately))

Cancel ==
    \E id \in EntryIds \cup ExitIds :
        ApiCall("cancel",
                [id |-> id, pending |-> Len(entry_orders) + Len(exit_orders)],
                cancel(Pos, id))

CancelAll ==
    ApiCall("cancel_all",
            [pending |-> Len(entry_orders) + Len(exit_orders)],
            cancel_all(Pos))

\* The host loads the next bar and runs process_orders.
RunBar(bar) ==
    /\ Commit(ProcessOrders(LoadBar(Pos), bar))
    /\ lib_bar' = bar
    /\ last_op' = "process_orders"
    /\ last_args' = NoArgs
    /\ UNCHANGED <<calls, risk_allowed_direction, risk_max_position_size,
                   script, lib_semaphore>>

NextBar == \E bar \in Bars : bar_index < MaxBars /\ RunBar(bar)

Next == Entry \/ Exit \/ Close \/ CloseAll \/ Cancel \/ CancelAll \/ NextBar

Spec == Init /\ [][Next]_vars

(***************************************************************************)
(* A strategy that opens one long position and scales out of it one step   *)
(* per close() call, far enough to fill the closed_trades deque and to     *)
(* overflow it.  A run of the script on a bar calls close() RingBatch      *)
(* times while that many trades still fit into the deque, and once per run *)
(* from there on.                                                          *)
(***************************************************************************)
\* close() calls of one run of the script while the deque fills.
RingBatch == 60

\* Closes past the capacity of the deque.
MaxOverflow == 2

\* Steps of the one entry: more than the run closes.
RingQty == 2 * ClosedTradesMaxlen

RingScripts == {ScriptOf("cash_per_order", R(1), 1)}

InitRing ==
    /\ InitLedger
    /\ risk_allowed_direction = "none"
    /\ risk_max_position_size = NoneR
    /\ script \in RingScripts

\* n calls of close("A", qty = 1, immediately = True), one after the other.
RECURSIVE CloseTimes(_, _)
CloseTimes(p, n) ==
    IF n = 1 THEN close(p, "A", ValR(R(1)), NAR, TRUE)
    ELSE CHOOSE r \in {CloseTimes(q, n - n \div 2) :
                          q \in {CloseTimes(p, n \div 2)}} : TRUE

RingEntry ==
    /\ calls = 0
    /\ Call("entry",
            [id |-> "A", direction |-> "long", qty |-> ValR(R(RingQty)),
             limit |-> NoneR, stop |-> NoneR],
            entry(Pos, "A", "long", ValR(R(RingQty)), NoneR, NoneR,
                  NoneId, NoneId))

RingBar == \E bar \in Bars : entry_orders # <<>> /\ RunBar(bar)

RingScaleOut ==
    /\ size # 0
    /\ closed_trades_count + RingBatch <= ClosedTradesMaxlen
    /\ Call("close", [id |-> "A", qty |-> ValR(R(1)), immediately |-> TRUE],
            CloseTimes(Pos, RingBatch))

RingClose ==
    /\ size # 0
    /\ closed_trades_count + RingBatch > ClosedTradesMaxlen
    /\ closed_trades_count < ClosedTradesMaxlen + MaxOverflow
    /\ Call("close", [id |-> "A", qty |-> ValR(R(1)), immediately |-> TRUE],
            CloseTimes(Pos, 1))

NextRing == RingEntry \/ RingBar \/ RingScaleOut \/ RingClose

SpecRing == InitRing /\ [][NextRing]_vars

(***************************************************************************)
(* Scaling in and out.  A long-only strategy under each commission model   *)
(* adds to its position with market entries, takes 4 steps off a trade at  *)
(* the close of the bar, or asks for everything to be closed on the next   *)
(* bar: longer runs than above over fewer inputs, in which a close_all     *)
(* order meets a position that has changed since the call.                 *)
(***************************************************************************)
\* API calls of a run.
MaxScaleCalls == 5

\* Bars of a run after the first one.
MaxScaleBars == 2

ScaleScripts ==
    {ScriptOf("percent", R(10), 3),
     ScriptOf("cash_per_contract", R(1), 3),
     ScriptOf("cash_per_order", R(1), 3)}

ScaleQtys == {ValR(R(6)), ValR(R(8))}

InitScale ==
    /\ InitLedger
    /\ risk_allowed_direction = "none"
    /\ risk_max_position_size = NoneR
    /\ script \in ScaleScripts

ScaleCall(name, args, p) ==
    calls < MaxScaleCalls /\ Call(name, args, p)

ScaleIn ==
    \E id \in EntryIds, qty \in ScaleQtys :
        ScaleCall("entry",
                  [id |-> id, direction |-> "long", qty |-> qty,
                   limit |-> NoneR, stop |-> NoneR],
                  entry(Pos, id, "long", qty, NoneR, NoneR,
                        NoneId, NoneId))

ScaleOut ==
    \E id \in EntryIds :
        ScaleCall("close",
                  [id |-> id, qty |-> ValR(R(4)), immediately |-> TRUE],
                  close(Pos, id, ValR(R(4)), NAR, TRUE))

ScaleCloseAll ==
    ScaleCall("close_all", [immediately |-> FALSE], close_all(Pos, FALSE))

ScaleBar == \E bar \in Bars : bar_index < MaxScaleBars /\ RunBar(bar)

NextScale == ScaleIn \/ ScaleOut \/ ScaleCloseAll \/ ScaleBar

SpecScale == InitScale /\ [][NextScale]_vars

(***************************************************************************)
(* The reentry guard.  The host sets lib._lib_semaphore while it runs user *)
(* code in an auxiliary context and clears it afterwards; the strategy     *)
(* calls every function of the API with the guard set or clear.            *)
(***************************************************************************)
\* API calls of a run.
MaxGuardCalls == 4

\* Bars of a run after the first one.
MaxGuardBars == 1

GuardScripts == {ScriptOf("percent", RZero, 2)}

InitGuard ==
    /\ InitLedger
    /\ risk_allowed_direction = "none"
    /\ risk_max_position_size = NoneR
    /\ script \in GuardScripts

\* The host sets or clears the guard; the ledger is not its business.
SetSemaphore(b) ==
    /\ lib_semaphore = ~b
    /\ lib_semaphore' = b
    /\ UNCHANGED <<entry_orders, exit_orders, open_trades, closed_trades,
                   closed_trades_count, new_closed_trades,
                   wintrades, eventrades, losstrades,
                   netprofit, openprofit, grossprofit, grossloss,
                   size, sign, avg_price, entry_summ, open_commission,
                   o, h, l, c, prev_c,
                   risk_allowed_direction, risk_max_position_size,
                   script, lib_bar, bar_index, calls, last_op,
                   last_args, fills, evals>>

GuardSet == SetSemaphore(TRUE)

GuardClear == SetSemaphore(FALSE)

GuardCall(name, args, p) ==
    calls < MaxGuardCalls /\ Call(name, args, p)

GuardEntry ==
    \E id \in EntryIds :
        GuardCall("entry",
                  [id |-> id, direction |-> "long", qty |-> ValR(R(5)),
                   limit |-> NoneR, stop |-> NoneR],
                  entry(Pos, id, "long", ValR(R(5)), NoneR, NoneR,
                        NoneId, NoneId))

GuardExit ==
    \E id \in ExitIds :
        GuardCall("exit",
                  [id |-> id, from_entry |-> "A", limit |-> ValR(R(12))],
                  exit(Pos, id, "A", NAR, NAR, NAR, ValR(R(12)), NAR, NAR,
                       NAR, NAR, NAR))

GuardClose ==
    \E immediately \in BOOLEAN :
        GuardCall("close",
                  [id |-> "A", qty |-> NAR, immediately |-> immediately],
                  close(Pos, "A", NAR, NAR, immediately))

GuardCloseAll ==
    \E immediately \in BOOLEAN :
        GuardCall("close_all", [immediately |-> immediately],
                  close_all(Pos, immediately))

GuardCancel ==
    \E id \in EntryIds \cup ExitIds :
        GuardCall("cancel",
                  [id |-> id,
                   pending |-> Len(entry_orders) + Len(exit_orders)],
                  cancel(Pos, id))

GuardCancelAll ==
    GuardCall("cancel_all",
              [pending |-> Len(entry_orders) + Len(exit_orders)],
              cancel_all(Pos))

GuardBar == \E bar \in Bars : bar_index < MaxGuardBars /\ RunBar(bar)

NextGuard ==
    \/ GuardSet \/ GuardClear
    \/ GuardEntry \/ GuardExit \/ GuardClose \/ GuardCloseAll
    \/ GuardCancel \/ GuardCancelAll
    \/ GuardBar

SpecGuard == InitGuard /\ [][NextGuard]_vars

(***************************************************************************)
(* Trailing exits.  A strategy enters long or short, at the market or at a *)
(* limit, and places one exit with a trailing stop: for the pending entry  *)
(* or for the open trade, the trail given in ticks or as a price, with a   *)
(* narrow or a wide offset.  The bars that follow rise and fall.           *)
(***************************************************************************)
\* API calls of a run.
MaxTrailCalls == 2

\* Bars of a run after the first one.
MaxTrailBars == 4

TrailScripts == {ScriptOf("percent", RZero, 1)}

\* The limit of entry(): none (a market order), or one that no bar reaches
\* from one side and every bar from the other.
TrailLimits == {NoneR, ValR(R(1)), ValR(R(20))}

\* The prices of exit(): a trail of 1 tick with an offset of 1 or of 4
\* ticks, or a trail price of 11 with a stop at 7 and an offset of 3, or
\* with a stop at 12 and an offset of 1.
TrailArgs ==
    {[stop |-> NAR, trail_price |-> NAR, trail_points |-> ValR(R(1)),
      trail_offset |-> ValR(R(1))],
     [stop |-> NAR, trail_price |-> NAR, trail_points |-> ValR(R(1)),
      trail_offset |-> ValR(R(4))],
     [stop |-> ValR(R(7)), trail_price |-> ValR(R(11)), trail_points |-> NAR,
      trail_offset |-> ValR(R(3))],
     [stop |-> ValR(R(12)), trail_price |-> ValR(R(11)), trail_points |-> NAR,
      trail_offset |-> ValR(R(1))]}

TrailBars ==
    {Bar(10, 12, 9, 11), Bar(11, 14, 11, 13), Bar(10, 11, 8, 10),
     Bar(9, 9, 6, 7)}

InitTrail ==
    /\ InitLedger
    /\ risk_allowed_direction = "none"
    /\ risk_max_position_size = NoneR
    /\ script \in TrailScripts

TrailCall(name, args, p) ==
    calls < MaxTrailCalls /\ Call(name, args, p)

TrailEntry ==
    \E direction \in Directions, limit \in TrailLimits :
        /\ calls = 0
        /\ TrailCall("entry",
                     [id |-> "A", direction |-> direction,
                      qty |-> ValR(R(5)), limit |-> limit, stop |-> NoneR],
                     entry(Pos, "A", direction, ValR(R(5)), limit, NoneR,
                           NoneId, NoneId))

TrailExit ==
    \E a \in TrailArgs :
        /\ calls = 1
        /\ TrailCall("exit", [id |-> "X", from_entry |-> "A", prices |-> a],
                     exit(Pos, "X", "A", NAR, NAR, NAR, NAR, NAR, a.stop,
                          a.trail_price, a.trail_points, a.trail_offset))

TrailBar == \E bar \in TrailBars : bar_index < MaxTrailBars /\ RunBar(bar)

NextTrail == TrailEntry \/ TrailExit \/ TrailBar

SpecTrail == InitTrail /\ [][NextTrail]_vars

(***************************************************************************)
(* Rounding.  One entry() call on a flat position, long or short, with a   *)
(* quantity on or off the size grid and a limit or a stop that is          *)
(* positive, zero or negative, on or off the tick grid: the order it       *)
(* places carries _size_round of the quantity and _price_round of the      *)
(* price.                                                                  *)
(***************************************************************************)
\* API calls of a run.
MaxRoundCalls == 1

RoundScripts == {ScriptOf("percent", RZero, 1)}

\* Quantities in steps: whole ones, and ones with a fraction of a step
\* under, at and over one half.
RoundQtys ==
    {R(3), R(4), Norm(33, 10), Norm(7, 2), Norm(9, 2), Norm(47, 10),
     Norm(399, 100)}

\* Prices in ticks: the quarters from -2 to 2, and prices a millionth of a
\* tick beside the grid.
RoundPrices ==
    {Norm(k, 4) : k \in -8..8}
    \cup {Norm(10000001, 1000000), Norm(9999999, 1000000),
          Norm(-10000001, 1000000), Norm(-9999999, 1000000)}

InitRound ==
    /\ InitLedger
    /\ risk_allowed_direction = "none"
    /\ risk_max_position_size = NoneR
    /\ script \in RoundScripts

RoundCall(name, args, p) ==
    calls < MaxRoundCalls /\ Call(name, args, p)

\* entry() with a limit
RoundLimit ==
    \E id \in EntryIds, direction \in Directions, qty \in RoundQtys, price \in RoundPrices :
        RoundCall("entry",
                  [id |-> id, direction |-> direction, qty |-> ValR(qty),
                   limit |-> ValR(price), stop |-> NoneR],
                  entry(Pos, id, direction, ValR(qty), ValR(price), NoneR,
                        NoneId, NoneId))

\* entry() with a stop
RoundStop ==
    \E id \in EntryIds, direction \in Directions, qty \in RoundQtys, price \in RoundPrices :
        RoundCall("entry",
                  [id |-> id, direction |-> direction, qty |-> ValR(qty),
                   limit |-> NoneR, stop |-> ValR(price)],
                  entry(Pos, id, direction, ValR(qty), NoneR, ValR(price),
                        NoneId, NoneId))

NextRound == RoundLimit \/ RoundStop

SpecRound == InitRound /\ [][NextRound]_vars

(***************************************************************************)
(* One-cancels-all groups.  A strategy places two entry orders in the      *)
(* group "G" of type cancel: market orders, or a limit under and a stop    *)
(* over the market.                                                        *)
(***************************************************************************)
\* API calls of a run.
MaxOcaCalls == 2

\* Bars of a run after the first one.
MaxOcaBars == 2

OcaScripts == {ScriptOf("percent", RZero, 2)}

\* strategy.oca.cancel
OcaCancel == "cancel"

\* The limit and stop of entry(): a market order, a limit at 9 or a stop
\* at 12.
OcaArgs ==
    {[limit |-> NoneR, stop |-> NoneR],
     [limit |-> ValR(R(9)), stop |-> NoneR],
     [limit |-> NoneR, stop |-> ValR(R(12))]}

InitOca ==
    /\ InitLedger
    /\ risk_allowed_direction = "none"
    /\ risk_max_position_size = NoneR
    /\ script \in OcaScripts

OcaCall(name, args, p) ==
    calls < MaxOcaCalls /\ Call(name, args, p)

OcaEntry ==
    \E id \in EntryIds, direction \in Directions, a \in OcaArgs :
        OcaCall("entry",
                [id |-> id, direction |-> direction, qty |-> ValR(R(5)),
                 limit |-> a.limit, stop |-> a.stop],
                entry(Pos, id, direction, ValR(R(5)), a.limit, a.stop,
                      "G", OcaCancel))

OcaBar == \E bar \in Bars : bar_index < MaxOcaBars /\ RunBar(bar)

NextOca == OcaEntry \/ OcaBar

SpecOca == InitOca /\ [][NextOca]_vars

(***************************************************************************)
(* Partial closes under the cash commission models.  A strategy opens one  *)
(* position of 5 or of 8 steps, long or short, holds it over a bar or      *)
(* more and takes 4 steps off at the close of a bar, once or twice.        *)
(***************************************************************************)
\* API calls of a run.
MaxSplitCalls == 3

\* Bars of a run after the first one.
MaxSplitBars == 3

SplitScripts ==
    {ScriptOf("cash_per_contract", R(1), 1), ScriptOf("cash_per_order", R(1), 1)}

SplitQtys == {ValR(R(5)), ValR(R(8))}

InitSplit ==
    /\ InitLedger
    /\ risk_allowed_direction = "none"
    /\ risk_max_position_size = NoneR
    /\ script \in SplitScripts

SplitCall(name, args, p) ==
    calls < MaxSplitCalls /\ Call(name, args, p)

SplitEntry ==
    \E direction \in Directions, qty \in SplitQtys :
        /\ calls = 0
        /\ SplitCall("entry",
                     [id |-> "A", direction |-> direction, qty |-> qty,
                      limit |-> NoneR, stop |-> NoneR],
                     entry(Pos, "A", direction, qty, NoneR, NoneR,
                           NoneId, NoneId))

SplitClose ==
    SplitCall("close", [id |-> "A", qty |-> ValR(R(4)), immediately |-> TRUE],
              close(Pos, "A", ValR(R(4)), NAR, TRUE))

SplitBar == \E bar \in Bars : bar_index < MaxSplitBars /\ RunBar(bar)

NextSplit == SplitEntry \/ SplitClose \/ SplitBar

SpecSplit == InitSplit /\ [][NextSplit]_vars

(***************************************************************************)
(* A cap on the position size.  risk_max_position_size is set before the   *)
(* first bar; a strategy places market entries of 5 or 8 steps under two   *)
(* ids, long or short, and bars go by.                                     *)
(***************************************************************************)
\* API calls of a run.
MaxCapCalls == 3

\* Bars of a run after the first one.
MaxCapBars == 2

\* The caps of strategy.risk.max_position_size.
CapLimits == {ValR(R(8))}

CapQtys == {ValR(R(5)), ValR(R(8))}

InitCap ==
    /\ InitLedger
    /\ risk_allowed_direction = "none"
    /\ risk_max_position_size \in CapLimits
    /\ script = ScriptOf("percent", RZero, 2)

CapEntry ==
    \E id \in EntryIds, direction \in Directions, qty \in CapQtys :
        /\ calls < MaxCapCalls
        /\ Call("entry",
                [id |-> id, direction |-> direction, qty |-> qty,
                 limit |-> NoneR, stop |-> NoneR],
                entry(Pos, id, direction, qty, NoneR, NoneR, NoneId, NoneId))

CapBar == \E bar \in Bars : bar_index < MaxCapBars /\ RunBar(bar)

NextCap == CapEntry \/ CapBar

SpecCap == InitCap /\ [][NextCap]_vars

(***************************************************************************)
(* Limit and stop orders.  A strategy enters long or short with a limit or *)
(* a stop under or over the market and places an exit with a limit, a stop *)
(* or both in ticks; the bars that follow stay in the range of the first   *)
(* or open with a gap above or below it.                                   *)
(***************************************************************************)
\* API calls of a run.
MaxTriggerCalls == 2

\* Bars of a run after the first one.
MaxTriggerBars == 2

TriggerScripts == {ScriptOf("percent", RZero, 1)}

\* The limit and stop of entry(): a limit or a stop at 9 or at 12.
TriggerEntryArgs ==
    {[limit |-> ValR(R(9)), stop |-> NoneR],
     [limit |-> ValR(R(12)), stop |-> NoneR],
     [limit |-> NoneR, stop |-> ValR(R(9))],
     [limit |-> NoneR, stop |-> ValR(R(12))]}

\* The prices of exit(): a limit at 12, a stop at 8, or 2 ticks of profit
\* and of loss.
TriggerExitArgs ==
    {[profit |-> NAR, limit |-> ValR(R(12)), loss |-> NAR, stop |-> NAR],
     [profit |-> NAR, limit |-> NAR, loss |-> NAR, stop |-> ValR(R(8))],
     [profit |-> ValR(R(2)), limit |-> NAR, loss |-> ValR(R(2)), stop |-> NAR]}

TriggerBars ==
    {Bar(10, 11, 8, 10), Bar(10, 12, 9, 11), Bar(13, 14, 12, 13),
     Bar(7, 8, 6, 7)}

InitTrigger ==
    /\ InitLedger
    /\ risk_allowed_direction = "none"
    /\ risk_max_position_size = NoneR
    /\ script \in TriggerScripts

TriggerCall(name, args, p) ==
    calls < MaxTriggerCalls /\ Call(name, args, p)

TriggerEntry ==
    \E direction \in Directions, a \in TriggerEntryArgs :
        /\ calls = 0
        /\ TriggerCall("entry",
                       [id |-> "A", direction |-> direction,
                        qty |-> ValR(R(5)), limit |-> a.limit,
                        stop |-> a.stop],
                       entry(Pos, "A", direction, ValR(R(5)), a.limit, a.stop,
                             NoneId, NoneId))

TriggerExit ==
    \E a \in TriggerExitArgs :
        /\ calls = 1
        /\ TriggerCall("exit",
                       [id |-> "X", from_entry |-> "A", prices |-> a],
                       exit(Pos, "X", "A", NAR, NAR, a.profit, a.limit,
                            a.loss, a.stop, NAR, NAR, NAR))

TriggerBar ==
    \E bar \in TriggerBars : bar_index < MaxTriggerBars /\ RunBar(bar)

NextTrigger == TriggerEntry \/ TriggerExit \/ TriggerBar

SpecTrigger == InitTrigger /\ [][NextTrigger]_vars

(***************************************************************************)
(* Properties.                                                             *)
(***************************************************************************)
RECURSIVE SumSize(_)
SumSize(trades) ==
    IF trades = <<>> THEN 0 ELSE Head(trades).size + SumSize(Tail(trades))

RECURSIVE SumNotional(_)
SumNotional(trades) ==
    IF trades = <<>> THEN 0
    ELSE Abs(Head(trades).size) * Head(trades).entry_price
         + SumNotional(Tail(trades))

RECURSIVE SumProfit(_, _)
SumProfit(trades, sgn) ==
    IF trades = <<>> THEN RZero
    ELSE IF Sgn(Head(trades).profit[1]) = sgn
    THEN RAdd(Head(trades).profit, SumProfit(Tail(trades), sgn))
    ELSE SumProfit(Tail(trades), sgn)

CountProfit(trades, sgn) ==
    Cardinality({i \in 1..Len(trades) : Sgn(trades[i].profit[1]) = sgn})

Fills == {fills[i] : i \in 1..Len(fills)}

\* A fill of an Entry order against a smaller position of the other sign.
IsReversal(f) ==
    /\ f.order.order_type = _order_type_entry
    /\ f.size_before # 0
    /\ Sgn(f.order.size) = -Sgn(f.size_before)
    /\ Abs(f.order.size) > Abs(f.size_before)

\* C1: position.size equals the sum of size over the open trades (exactly,
\* hence to within one size step), in every state.
C1_SizeIsSumOfOpenTrades == size = SumSize(open_trades)

\* C1 witness: a closing fill has left part of a position of two trades.
C1_Witness ==
    /\ Len(open_trades) >= 2
    /\ \E f \in Fills : f.closed # <<>> /\ f.size_after # 0

\* C2: all trades in open_trades have the same sign, in every state.
C2_HomogeneousSigns ==
    \A i, j \in 1..Len(open_trades) : open_trades[i].sign = open_trades[j].sign

\* C3: a fill of an Entry order against a smaller position of the other
\* sign, with no direction restriction, closes every open trade at the fill
\* price with exit_id = the entry's order_id and opens exactly one trade of
\* size old position + order size at the fill price; the position then has
\* that size and avg_price = fill price.
C3_ReversalSplits ==
    \A f \in Fills :
        IsReversal(f) /\ risk_allowed_direction = "none" =>
            /\ Len(f.closed) = Len(f.trades_before)
            /\ \A i \in 1..Len(f.closed) :
                  /\ f.closed[i].exit_price = f.price
                  /\ f.closed[i].exit_id = f.order.order_id
                  /\ f.closed[i].size = f.trades_before[i].size
            /\ Len(f.trades_after) = 1
            /\ f.trades_after[1].size = f.size_before + f.order.size
            /\ f.trades_after[1].entry_price = f.price
            /\ f.size_after = f.size_before + f.order.size
            /\ f.avg_price_after = R(f.price)

\* C4: a fill of a Close order never reverses the position, never makes it
\* larger and never opens a trade.
C4_CloseNeverReverses ==
    \A f \in Fills :
        f.order.order_type = _order_type_close =>
            /\ Sgn(f.size_after) \in {Sgn(f.size_before), 0}
            /\ Abs(f.size_after) <= Abs(f.size_before)
            /\ Len(f.trades_after) <= Len(f.trades_before)
            /\ \A i \in 1..Len(f.trades_after) :
                  \E j \in 1..Len(f.trades_before) :
                      /\ f.trades_after[i].entry_id = f.trades_before[j].entry_id
                      /\ f.trades_after[i].entry_bar_index
                            = f.trades_before[j].entry_bar_index

\* C5: with risk_allowed_direction set, the fill of an Entry order in the
\* other direction that exceeds the open position closes the open trades
\* and opens none: the position ends flat.
C5_BlockedReversalEndsFlat ==
    \A f \in Fills :
        /\ IsReversal(f)
        /\ risk_allowed_direction # "none"
        /\ (f.order.size > 0) # (risk_allowed_direction = "long")
        => f.size_after = 0 /\ f.trades_after = <<>>

\* C6: grossprofit >= 0, grossloss >= 0 and the three counters add up to
\* closed_trades_count; every closed trade counts once, in the counter of
\* the sign of its profit, and its profit is in the gross sum of that sign.
C6_CountersAddUp ==
    /\ RLe(RZero, grossprofit)
    /\ RLe(RZero, grossloss)
    /\ wintrades + eventrades + losstrades = closed_trades_count
    /\ Len(closed_trades) < ClosedTradesMaxlen =>
          /\ closed_trades_count = Len(closed_trades)
          /\ wintrades = CountProfit(closed_trades, 1)
          /\ eventrades = CountProfit(closed_trades, 0)
          /\ losstrades = CountProfit(closed_trades, -1)
          /\ grossprofit = SumProfit(closed_trades, 1)
          /\ grossloss = RNeg(SumProfit(closed_trades, -1))

\* C6 witness: a winning and a losing trade have been closed and both
\* gross sums are positive.
C6_Witness ==
    /\ wintrades >= 1 /\ losstrades >= 1
    /\ RLt(RZero, grossprofit) /\ RLt(RZero, grossloss)

\* C8: avg_price is entry_summ / |size| while the position is open and 0
\* while it is flat.
C8_AvgPrice ==
    IF size # 0 THEN avg_price = Norm(entry_summ, Abs(size))
    ELSE avg_price = RZero

\* C8 witness: a position of two trades entered at different prices, after
\* a partial close.
C8_Witness ==
    /\ size # 0
    /\ \E i, j \in 1..Len(open_trades) :
          open_trades[i].entry_price # open_trades[j].entry_price
    /\ \E f \in Fills : f.closed # <<>>

\* C9: entry_summ is the sum of |size| * entry_price over the open trades.
C9_EntrySumm == entry_summ = SumNotional(open_trades)

\* C10: when process_orders returns, no market order is pending.
C10_NoMarketOrderPersists ==
    last_op = "process_orders" =>
        \A i \in 1..Len(entry_orders \o exit_orders) :
            ~(entry_orders \o exit_orders)[i].is_market_order

\* The key of an order in its map and its place in the two maps, entries
\* first; 0 if the maps do not hold it.
KeyOf(order) ==
    [order_type |-> order.order_type,
     key |-> IF order.order_type = _order_type_entry THEN order.order_id
             ELSE order.exit_id]

KeysOf(orders) == [i \in 1..Len(orders) |-> KeyOf(orders[i])]

PassEvals(es, n) == KeysOf(SelectSeq(es, LAMBDA e : e.pass = n))

RankIn(keys, k) ==
    IF \E i \in 1..Len(keys) : keys[i] = k
    THEN CHOOSE i \in 1..Len(keys) : keys[i] = k
    ELSE 0

\* One run of process_orders as C11 has it: pass 1 evaluates the pending
\* orders, entries first, each map in insertion order; pass 2 evaluates
\* orders that were pending, in the same relative order.
C11_Step ==
    last_op' = "process_orders" =>
        \E keys \in {KeysOf(entry_orders \o exit_orders)} :
            /\ PassEvals(evals', 1) = keys
            /\ \E second \in {PassEvals(evals', 2)} :
                  /\ \A i \in 1..Len(second) : RankIn(keys, second[i]) > 0
                  /\ \A i, j \in 1..Len(second) :
                        i < j => RankIn(keys, second[i])
                                    < RankIn(keys, second[j])

\* C11: in each of the two passes of process_orders every pending entry
\* order is evaluated before any pending exit order, and the orders of one
\* map in the order of their insertion.
C11_EntriesBeforeExits == [][C11_Step]_vars

\* C11 witness: pass 1 has evaluated two entry orders and an exit order,
\* and pass 2 an entry order and an exit order that pass 1 left pending.
C11_Witness ==
    /\ last_op = "process_orders"
    /\ Len(PassEvals(evals, 1)) = 3
    /\ PassEvals(evals, 1)[3].order_type = _order_type_close
    /\ PassEvals(evals, 1)[2].order_type = _order_type_entry
    /\ \E i, j \in 1..Len(PassEvals(evals, 2)) :
          /\ PassEvals(evals, 2)[i].order_type = _order_type_entry
          /\ PassEvals(evals, 2)[j].order_type = _order_type_close

\* The same trade: a trade keeps its entry through a partial close.
SameEntry(t, u) ==
    /\ t.entry_id = u.entry_id
    /\ t.entry_bar_index = u.entry_bar_index
    /\ t.entry_price = u.entry_price

\* The fill f has closed the first k open trades, all but the last of them
\* whole, and has left the rest of the last, if any, and the other trades
\* in their order; part is 1 if the last is closed partially, else 0.
DrainsPrefix(f, k, part) ==
    /\ k <= Len(f.trades_before)
    /\ \A i \in 1..k :
          /\ SameEntry(f.closed[i], f.trades_before[i])
          /\ i < k => f.closed[i].size = f.trades_before[i].size
    /\ Len(f.trades_after) = Len(f.trades_before) - k + part
    /\ part = 1 =>
          /\ SameEntry(f.trades_after[1], f.trades_before[k])
          /\ f.trades_after[1].size + f.closed[k].size
                = f.trades_before[k].size
          /\ f.trades_after[1].sign = Sgn(f.closed[k].size)
    /\ part = 0 /\ k >= 1 => f.closed[k].size = f.trades_before[k].size
    /\ \A i \in 1..(Len(f.trades_before) - k) :
          f.trades_after[i + part] = f.trades_before[i + k]

\* A fill of a Close order without order_id that is smaller than the
\* position.
IsPartialCloseAll(f) ==
    /\ f.order.order_type = _order_type_close
    /\ f.order.order_id = NoneId
    /\ f.order.size # 0
    /\ Abs(f.order.size) < Abs(f.size_before)

\* C12: a fill of a Close order without order_id and smaller than the
\* position closes a prefix of open_trades in entry order, at most the last
\* of them partially, and the trades that remain keep their order.
C12_FifoDrain ==
    \A f \in Fills :
        IsPartialCloseAll(f) =>
            \E part \in {0, 1} : DrainsPrefix(f, Len(f.closed), part)

\* C12 witness: such a fill has closed one trade whole and the next one
\* partially, and a third trade is left as it was.
C12_Witness ==
    \E f \in Fills :
        /\ IsPartialCloseAll(f)
        /\ Len(f.closed) = 2
        /\ Len(f.trades_after) = 2
        /\ Abs(f.closed[2].size) < Abs(f.trades_before[2].size)
        /\ DrainsPrefix(f, 2, 1)

\* C13: the number of open trades in one direction never exceeds the
\* pyramiding limit.
C13_PyramidingLimit ==
    \A d \in {-1, 1} :
        Cardinality({i \in 1..Len(open_trades) : open_trades[i].sign = d})
            <= script.pyramiding

\* The price P&L of a closed trade: (exit_price - entry_price) * size.
PricePnl(t) == R((t.exit_price - t.entry_price) * t.size)

\* C14: under the cash_per_contract or percent commission model the profit
\* of every closed trade is its price P&L minus the commission recorded on
\* it.
C14_ProfitNetOfCommission ==
    script.commission_type \in {"percent", "cash_per_contract"} =>
        \A i \in 1..Len(closed_trades) :
            closed_trades[i].profit
                = RSub(PricePnl(closed_trades[i]), closed_trades[i].commission)

\* The percent commission on q contracts at price px: q * r * 0.01 * px.
PercentOf(q, px) == RMul(RMul(R(q), script.commission_value), Norm(px, 100))

\* The fill f has closed, whole and in one fill, the one trade that the
\* ledger has ever opened.
ClosesOnlyTrade(f) ==
    /\ closed_trades_count = 1
    /\ Len(f.trades_before) = 1
    /\ Len(f.closed) = 1
    /\ f.closed[1].size = f.trades_before[1].size
    /\ f.size_before = f.trades_before[1].size
    /\ f.size_after = 0
    /\ f.trades_after = <<>>

\* The netprofit C15 gives for the round trip of the closed trade t.
RoundTripNet(t) ==
    RSub(RSub(PricePnl(t), PercentOf(Abs(t.size), t.entry_price)),
         PercentOf(Abs(t.size), t.exit_price))

\* C15: under the percent model, when the last fill has closed whole the
\* only trade ever opened, q contracts entered at pe and closed at px, the
\* ledger is flat and netprofit = P&L - q*r*0.01*pe - q*r*0.01*px.
C15_PercentRoundTrip ==
    /\ script.commission_type = "percent"
    /\ fills # <<>>
    /\ ClosesOnlyTrade(fills[Len(fills)])
    => /\ size = 0 /\ open_trades = <<>>
       /\ netprofit = RoundTripNet(fills[Len(fills)].closed[1])

\* C15 witness: such a round trip at a commission rate above zero, closed
\* at another price than it was entered at.
C15_Witness ==
    /\ script.commission_type = "percent"
    /\ ~RIsZero(script.commission_value)
    /\ fills # <<>>
    /\ ClosesOnlyTrade(fills[Len(fills)])
    /\ fills[Len(fills)].closed[1].exit_price
          # fills[Len(fills)].closed[1].entry_price

\* The sum of the price P&L and of |size| over a list of closed trades.
RECURSIVE SumPricePnl(_)
SumPricePnl(trades) ==
    IF trades = <<>> THEN RZero
    ELSE RAdd(PricePnl(Head(trades)), SumPricePnl(Tail(trades)))

RECURSIVE SumAbsSize(_)
SumAbsSize(trades) ==
    IF trades = <<>> THEN 0
    ELSE Abs(Head(trades).size) + SumAbsSize(Tail(trades))

\* The commission that the closed trade ct has taken over from the open
\* trade t it is a slice of: the share of its size in t.
EntryShare(ct, t) == RMul(t.commission, Norm(ct.size, t.size))

\* The closed trade ct carries the commission charged by the closing fill on
\* top of its share of the entry commission of a trade open before.
CarriesExitCommission(f, ct, charged) ==
    \E j \in 1..Len(f.trades_before) :
        /\ SameEntry(ct, f.trades_before[j])
        /\ ct.commission = RAdd(EntryShare(ct, f.trades_before[j]), charged)

\* C16: under cash_per_contract a closing fill adds |size| *
\* commission_value to the commission of each trade it closes, takes that
\* amount from netprofit and takes the commission from the trade's profit.
C16_CashPerContractOnClose ==
    \A f \in Fills :
        script.commission_type = "cash_per_contract" /\ f.closed # <<>> =>
            /\ \A i \in 1..Len(f.closed) :
                  /\ CarriesExitCommission(
                         f, f.closed[i],
                         RMul(R(Abs(f.closed[i].size)),
                              script.commission_value))
                  /\ f.closed[i].profit
                        = RSub(PricePnl(f.closed[i]), f.closed[i].commission)
            /\ f.netprofit_after
                  = RSub(RAdd(f.netprofit_before, SumPricePnl(f.closed)),
                         RMul(R(SumAbsSize(f.closed)),
                              script.commission_value))

\* C17: under cash_per_order a closing fill that closes k >= 1 trades
\* takes commission_value from netprofit once, on top of the realized P&L,
\* and adds to each of the k trades the share of commission_value that its
\* size has in the size closed; the shares sum to commission_value.
C17_CashPerOrderOnce ==
    \A f \in Fills :
        script.commission_type = "cash_per_order" /\ f.closed # <<>> =>
            /\ f.netprofit_after
                  = RSub(RAdd(f.netprofit_before, SumPricePnl(f.closed)),
                         script.commission_value)
            /\ \A i \in 1..Len(f.closed) :
                  CarriesExitCommission(
                      f, f.closed[i],
                      RMul(script.commission_value,
                           Norm(Abs(f.closed[i].size),
                                SumAbsSize(f.closed))))

\* C17 witness: a fill under cash_per_order has closed two trades of
\* different sizes.
C17_Witness ==
    \E f \in Fills :
        /\ script.commission_type = "cash_per_order"
        /\ Len(f.closed) = 2
        /\ Abs(f.closed[1].size) # Abs(f.closed[2].size)

\* A fill of a Close order for a part of the one open trade, which it
\* names or which it takes as the first one.
IsPartialOfSingle(f) ==
    /\ f.order.order_type = _order_type_close
    /\ Len(f.trades_before) = 1
    /\ f.size_before = f.trades_before[1].size
    /\ f.order.order_id \in {f.trades_before[1].entry_id, NoneId}
    /\ f.order.size # 0
    /\ Sgn(f.order.size) = -Sgn(f.size_before)
    /\ Abs(f.order.size) < Abs(f.size_before)

\* What C18 says of such a fill, q = |order.size| and e the entry price.
PartialCloseEffect(f) ==
    /\ Len(f.trades_after) = 1
    /\ SameEntry(f.trades_after[1], f.trades_before[1])
    /\ f.trades_after[1].size = f.trades_before[1].size + f.order.size
    /\ f.size_after = f.size_before + f.order.size
    /\ Len(f.closed) = 1
    /\ f.closed[1].size = -f.order.size
    /\ f.closed[1].entry_price = f.trades_before[1].entry_price
    /\ f.closed[1].exit_price = f.price
    /\ RIsZero(script.commission_value) =>
          f.closed[1].profit
            = R(-f.order.size * (f.price - f.trades_before[1].entry_price))
    /\ f.entry_summ_after
          = f.entry_summ_before
              - Abs(f.order.size) * f.trades_before[1].entry_price
    /\ f.avg_price_after = R(f.trades_before[1].entry_price)

EntriesBut(orders, id) == SelectSeq(orders, LAMBDA x : x.order_id # id)

EntriesOf(orders, id) == SelectSeq(orders, LAMBDA x : x.order_id = id)

DirectionSign(direction) == IF direction = "short" THEN -1 ELSE 1

\* The order carries the direction, size, limit and stop of the call a.
CarriesCall(order, a) ==
    /\ order.order_type = _order_type_entry
    /\ order.sign = DirectionSign(a.direction)
    /\ IsVal(a.qty) => order.size = DirectionSign(a.direction) * a.qty.v[1]
    /\ order.limit = IF IsVal(a.limit)
                      THEN Val(_price_round(a.limit.v,
                                            DirectionSign(a.direction)))
                      ELSE None
    /\ order.stop = IF IsVal(a.stop)
                     THEN Val(_price_round(a.stop.v,
                                           -DirectionSign(a.direction)))
                     ELSE None

\* A call that entry() has no ground to refuse: a quantity is given, the
\* position is flat and the direction is allowed.
MustAccept(a) ==
    /\ IsVal(a.qty)
    /\ size = 0
    /\ risk_allowed_direction \in {"none", a.direction}

\* One entry() call as C19 has it: the map holds the order of this call
\* under id and nothing else under id, or it is as it was (the call was
\* refused); the other entry orders, the exit orders and the trades are
\* as they were.
C19_Step ==
    last_op' = "entry" /\ calls' = calls + 1 =>
        /\ EntriesBut(entry_orders', last_args'.id)
              = EntriesBut(entry_orders, last_args'.id)
        /\ exit_orders' = exit_orders
        /\ open_trades' = open_trades
        /\ closed_trades' = closed_trades
        /\ \/ /\ Len(EntriesOf(entry_orders', last_args'.id)) = 1
              /\ CarriesCall(EntriesOf(entry_orders', last_args'.id)[1],
                             last_args')
           \/ /\ entry_orders' = entry_orders
              /\ ~MustAccept(last_args')

\* C19: an accepted entry(id, ...) call leaves exactly one pending entry
\* order under id, with the size, limit and stop of this call, and leaves
\* the other pending entry orders, the exit orders, the open trades and
\* the closed trades unchanged.
C19_EntryReplaces == [][C19_Step]_vars

\* C19 witness: the third call, an entry(), has replaced the pending order
\* of its id in its place, before a pending order of another id.
C19_Witness ==
    /\ last_op = "entry"
    /\ Len(entry_orders) = 2
    /\ Len(EntriesOf(entry_orders, last_args.id)) = 1
    /\ entry_orders[1].order_id = last_args.id
    /\ CarriesCall(entry_orders[1], last_args)
    /\ calls = 3

\* What cancel and cancel_all leave alone: the trades, the position and
\* the profit figures and counters.
LedgerKept ==
    UNCHANGED <<open_trades, closed_trades, closed_trades_count,
                new_closed_trades, size, sign, avg_price, entry_summ,
                netprofit, openprofit, grossprofit, grossloss,
                open_commission, wintrades, eventrades, losstrades>>

\* One cancel or cancel_all call as C20 has it.
C20_Step ==
    /\ last_op' = "cancel" /\ calls' = calls + 1 =>
          /\ entry_orders' = EntriesBut(entry_orders, last_args'.id)
          /\ exit_orders'
                = SelectSeq(exit_orders, LAMBDA x : x.exit_id # last_args'.id)
          /\ LedgerKept
    /\ last_op' = "cancel_all" /\ calls' = calls + 1 =>
          /\ entry_orders' = <<>>
          /\ exit_orders' = <<>>
          /\ LedgerKept

\* C20: cancel(id) removes the order keyed id from entry_orders and from
\* exit_orders and leaves every other pending order unchanged; cancel_all
\* empties both maps; neither changes the trades, the position size,
\* netprofit or a counter.
C20_CancelRemoves == [][C20_Step]_vars

\* C20 witness: of two pending orders, cancel(id) has removed the exit
\* order keyed id and has left the entry order pending.
C20_Witness ==
    /\ last_op = "cancel"
    /\ last_args.id \in ExitIds
    /\ last_args.pending = 2
    /\ Len(entry_orders) = 1
    /\ exit_orders = <<>>

\* The orders, the trades, the position and the figures stay as they are.
LedgerUnchanged ==
    /\ UNCHANGED <<entry_orders, exit_orders>>
    /\ LedgerKept

\* C21: while lib_semaphore is set, a call to entry, exit, close,
\* close_all, cancel or cancel_all leaves the whole ledger unchanged: no
\* order is added, replaced, removed or filled.
C21_GuardedCallsDoNothing ==
    [][lib_semaphore /\ calls' = calls + 1
         => LedgerUnchanged /\ fills' = <<>>]_vars

\* C21 witness: cancel_all() was called with the guard set while an entry
\* order and an exit order were pending, and both still are.
C21_Witness ==
    /\ lib_semaphore
    /\ last_op = "cancel_all"
    /\ last_args.pending = 2
    /\ Len(entry_orders) = 1
    /\ Len(exit_orders) = 1

\* C22: a close(id, ...) or close_all(...) call made while position.size
\* is 0 is dropped: no order is inserted into exit_orders, nothing is
\* filled and the ledger is unchanged, also when immediately is true.
C22_CloseWhenFlatDropped ==
    [][size = 0 /\ calls' = calls + 1 /\ last_op' \in {"close", "close_all"}
         => LedgerUnchanged /\ fills' = <<>>]_vars

\* C22 witness: close_all(immediately = True) was called on a flat
\* position with an entry order pending, and nothing was placed or filled.
C22_Witness ==
    /\ last_op = "close_all"
    /\ last_args.immediately
    /\ size = 0
    /\ open_trades = <<>>
    /\ entry_orders # <<>>
    /\ exit_orders = <<>>
    /\ fills = <<>>

\* The pending exit orders under exit id that are for the entry from_entry
\* and sized against size_.
ExitsFor(orders, id, from_entry, size_) ==
    {j \in 1..Len(orders) :
        /\ orders[j].exit_id = id
        /\ orders[j].order_type = _order_type_close
        /\ orders[j].order_id = from_entry
        /\ orders[j].size = -size_}

\* One exit() call without from_entry as C23 has it.
C23_Step ==
    last_op' = "exit" /\ calls' = calls + 1 /\ last_args'.from_entry = ""
    => /\ \A i \in 1..Len(entry_orders) :
             ExitsFor(exit_orders', last_args'.id, entry_orders[i].order_id,
                      entry_orders[i].size) # {}
       /\ \A i \in 1..Len(open_trades) :
             ExitsFor(exit_orders', last_args'.id, open_trades[i].entry_id,
                      open_trades[i].size) # {}
       /\ Cardinality({j \in 1..Len(exit_orders') :
                          exit_orders'[j].exit_id = last_args'.id})
             = Len(entry_orders) + Len(open_trades)

\* C23: an exit(id, ...) call with no from_entry, made when there are n
\* pending entry orders and m open trades, issues one exit order per
\* pending entry and per open trade: afterwards exit_orders holds a
\* separate pending exit for each of the n + m targets, each sized and
\* directed against its own target.
C23_ExitPerTarget == [][C23_Step]_vars

\* The order is a buy or its stop is not under the one of before.
StopNotLowered(before, after) ==
    before.size < 0 => IsVal(after.stop) /\ after.stop.v >= before.stop.v

\* The order is a sell or its stop is not over the one of before.
StopNotRaised(before, after) ==
    before.size > 0 => IsVal(after.stop) /\ after.stop.v <= before.stop.v

\* A triggered order stays triggered and its stop does not regress.
TrailKept(before, after) ==
    before.trail_triggered
    => /\ after.trail_triggered
       /\ IsVal(before.stop)
       /\ StopNotLowered(before, after)
       /\ StopNotRaised(before, after)

\* One run of process_orders as C24 has it.
C24_Step ==
    last_op' = "process_orders"
    => \A i \in 1..Len(exit_orders), j \in 1..Len(exit_orders') :
          exit_orders[i].exit_id = exit_orders'[j].exit_id
          => TrailKept(exit_orders[i], exit_orders'[j])

\* C24: for a pending exit order with a trail price that stays in
\* exit_orders over consecutive process_orders runs, trail_triggered never
\* goes from true back to false, and once it is true the stop never
\* regresses: it only rises for a sell-to-close order and only falls for a
\* buy-to-close order.
C24_TrailNeverRegresses == [][C24_Step]_vars

\* The exit order was triggered when pass 1 of the last process_orders
\* took it, and is still pending.
WasTriggered(order) ==
    \E k \in 1..Len(evals) :
        /\ evals[k].pass = 1
        /\ evals[k].order_type = _order_type_close
        /\ evals[k].exit_id = order.exit_id
        /\ evals[k].trail_triggered
        /\ IsVal(evals[k].stop)
        /\ order.stop.v # evals[k].stop.v

\* C24 witness: a sell-to-close order that was triggered before the last
\* process_orders is still pending and that run has moved its stop.
C24_Witness ==
    /\ last_op = "process_orders"
    /\ \E i \in 1..Len(exit_orders) :
          /\ exit_orders[i].size < 0
          /\ exit_orders[i].trail_triggered
          /\ WasTriggered(exit_orders[i])

\* The price rounded is on the side of price that direction names.
OnSide(rounded, price, direction) ==
    IF direction > 0 THEN RLe(price, R(rounded)) ELSE RLe(R(rounded), price)

\* The order that the last entry() call has placed carries its limit
\* rounded in the direction of the order and its stop rounded against it.
PricesOnSide(order, a) ==
    /\ a.limit.k = "val"
        => /\ order.limit.v \in Int
           /\ OnSide(order.limit.v, a.limit.v, DirectionSign(a.direction))
    /\ a.stop.k = "val"
        => /\ order.stop.v \in Int
           /\ OnSide(order.stop.v, a.stop.v, -DirectionSign(a.direction))

\* C25: for every price p (positive, zero or negative, on or off the tick
\* grid) _price_round(p, +1) >= p and _price_round(p, -1) <= p, and both
\* results are integer multiples of mintick.
C25_PriceRoundBounds ==
    last_op = "entry"
    => \A i \in 1..Len(entry_orders) :
          entry_orders[i].order_id = last_args.id
          => PricesOnSide(entry_orders[i], last_args)

\* The size is the quantity floored to the step, with the sign of the
\* direction.
FlooredTo(osize, qty, direction) ==
    /\ osize \in Int
    /\ Sgn(osize) = DirectionSign(direction)
    /\ RLe(R(Abs(osize)), qty)
    /\ RLt(qty, R(Abs(osize) + 1))

\* C26: _size_round floors the magnitude to the exchange step: for every
\* qty # 0 the result has the sign of qty, is an integer multiple of
\* 1/size_round_factor, and satisfies |result| <= |qty| < |result| +
\* 1/size_round_factor (it never rounds a quantity up).
C26_SizeRoundFloors ==
    last_op = "entry"
    => \A i \in 1..Len(entry_orders) :
          entry_orders[i].order_id = last_args.id
          => FlooredTo(entry_orders[i].size, last_args.qty.v,
                       last_args.direction)

\* The order belongs to a one-cancels-all group of type cancel.
InOcaGroup(order) ==
    order.oca_name # NoneId /\ order.oca_type = OcaCancel

\* Another order than order of the same group.
OcaPeer(order, other) ==
    /\ InOcaGroup(other)
    /\ other.oca_name = order.oca_name
    /\ other.order_id # order.order_id

\* C27: when one pending order that belongs to an OCA group (same
\* oca_name, cancel type) is filled, the other pending orders of that
\* group are cancelled and can no longer fill, in the same bar or in later
\* bars.
C27_OcaCancelsPeers ==
    \A k \in 1..Len(fills) :
        InOcaGroup(fills[k].order)
        => /\ \A i \in 1..Len(entry_orders) :
                 ~OcaPeer(fills[k].order, entry_orders[i])
           /\ \A j \in 1..Len(fills) :
                 ~OcaPeer(fills[k].order, fills[j].order)

\* What the closing fill f has added to the commission of the trade ct it
\* closed, under the cash models: the share of the order's commission
\* under cash_per_order, nothing under cash_per_contract.
ExitCharged(f, ct) ==
    IF script.commission_type = "cash_per_order"
    THEN RMul(script.commission_value,
              Norm(Abs(ct.size), SumAbsSize(f.closed)))
    ELSE RZero

\* The open trade tb and the slice ct that the fill f has closed of it:
\* the trade left open keeps the retained fraction of entry commission,
\* drawdown and run-up, and the closed copy has the rest.
SplitWithoutLoss(f, ct, tb) ==
    \E k \in 1..Len(f.trades_after) :
        /\ SameEntry(f.trades_after[k], tb)
        /\ f.trades_after[k].size + ct.size = tb.size
        /\ f.trades_after[k].commission
              = RMul(tb.commission, Norm(f.trades_after[k].size, tb.size))
        /\ RAdd(f.trades_after[k].commission,
                RSub(ct.commission, ExitCharged(f, ct))) = tb.commission
        /\ RAdd(f.trades_after[k].max_drawdown, ct.max_drawdown)
              = tb.max_drawdown
        /\ RAdd(f.trades_after[k].max_runup, ct.max_runup) = tb.max_runup

\* The closed trade ct is a part of the open trade tb.
IsSliceOf(ct, tb) ==
    /\ SameEntry(ct, tb)
    /\ Abs(ct.size) < Abs(tb.size)

IsOpeningLeg(f) ==
    /\ f.order.order_type = _order_type_entry
    /\ f.order.size # 0
    /\ f.size_before = 0 \/ Sgn(f.size_before) = f.order.sign

\* The commission of the configured model on q contracts at price px.
CommissionOf(q, px) ==
    IF script.commission_type = "percent" THEN PercentOf(q, px)
    ELSE IF script.commission_type = "cash_per_order"
    THEN script.commission_value
    ELSE RMul(R(q), script.commission_value)

\* The trade that C29 has the fill f append.
IsOpenedBy(t, f) ==
    /\ t.size = f.order.size
    /\ t.entry_id = f.order.order_id
    /\ t.entry_price = f.price
    /\ t.entry_equity = f.equity_before

\* What C29 says of the fill f.
OpeningEffect(f) ==
    /\ Len(f.trades_after) = Len(f.trades_before) + 1
    /\ SubSeq(f.trades_after, 1, Len(f.trades_before)) = f.trades_before
    /\ IsOpenedBy(f.trades_after[Len(f.trades_after)], f)
    /\ f.size_after = f.size_before + f.order.size
    /\ f.netprofit_after
          = RSub(f.netprofit_before,
                 CommissionOf(Abs(f.order.size), f.price))
    /\ f.closed = <<>>
    /\ ~HasEntry(entry_orders, f.order.order_id)

\* C29: filling an opening leg (an Entry order in the direction of the
\* position or while flat) appends exactly one trade with size =
\* order.size, entry_price = fill price and entry_equity = equity before
\* the commission was debited, lowers netprofit by exactly the commission
\* of the configured model, removes the order from entry_orders, and
\* leaves closed_trades, closed_trades_count and the win/even/loss
\* counters unchanged.
C29_OpeningLeg == \A f \in Fills : IsOpeningLeg(f) => OpeningEffect(f)

\* C29 witness: an opening leg added to a position in its direction, at a
\* commission other than zero.
C29_Witness ==
    \E f \in Fills :
        /\ IsOpeningLeg(f)
        /\ f.size_before # 0
        /\ ~RIsZero(CommissionOf(Abs(f.order.size), f.price))
        /\ OpeningEffect(f)

Min2(a, b) == IF a <= b THEN a ELSE b

Max2(a, b) == IF a >= b THEN a ELSE b

\* A limit or stop order without a trail price.
IsPricedOrder(order) ==
    /\ IsVal(order.limit) \/ IsVal(order.stop)
    /\ ~IsVal(order.trail_price)
    /\ order.trail_points_ticks.k = "none"

\* The bar has reached the stop of the buy order of the fill f, which is
\* filled at the stop or at an open above it.
BuyStopHit(f) ==
    /\ IsVal(f.order.stop) /\ f.order.stop.v <= h
    /\ f.price = Max2(f.order.stop.v, o) /\ f.price >= f.order.stop.v

BuyLimitHit(f) ==
    /\ IsVal(f.order.limit) /\ f.order.limit.v >= l
    /\ f.price = Min2(o, f.order.limit.v) /\ f.price <= f.order.limit.v

SellLimitHit(f) ==
    /\ IsVal(f.order.limit) /\ f.order.limit.v <= h
    /\ f.price = Max2(f.order.limit.v, o) /\ f.price >= f.order.limit.v

SellStopHit(f) ==
    /\ IsVal(f.order.stop) /\ f.order.stop.v >= l
    /\ f.price = Min2(o, f.order.stop.v) /\ f.price <= f.order.stop.v

\* C30: for orders without a trail price, a limit or stop order fills in a
\* bar only if the bar's range reaches its trigger (buy-stop: stop <= h,
\* sell-limit: limit <= h, sell-stop: stop >= l, buy-limit: limit >= l),
\* and the fill price respects the trigger with the open as gap price: a
\* buy-limit fills at min(o, limit), a sell-limit at max(limit, o), a
\* buy-stop at max(stop, o) and a sell-stop at min(o, stop).
C30_FillsAtTrigger ==
    last_op = "process_orders" =>
        \A f \in Fills :
            IsPricedOrder(f.order) =>
                IF f.order.size > 0
                THEN BuyStopHit(f) \/ BuyLimitHit(f)
                ELSE SellLimitHit(f) \/ SellStopHit(f)

\* C30 witness: a bar that opened with a gap over the stop of a buy order
\* has filled it at the open.
C30_Witness ==
    /\ last_op = "process_orders"
    /\ \E f \in Fills :
          /\ IsPricedOrder(f.order)
          /\ f.order.size > 0
          /\ BuyStopHit(f)
          /\ f.price > f.order.stop.v
          /\ f.size_after # f.size_before

RECURSIVE SumCommission(_)
SumCommission(trades) ==
    IF trades = <<>> THEN RZero
    ELSE RAdd(Head(trades).commission, SumCommission(Tail(trades)))

\* C31: after every fill and for every commission model, open_commission
\* equals the sum of commission over the trades in open_trades, so that
\* the reported grossloss counts exactly the commission of the still-open
\* trades; in particular this holds after a partial close.
C31_OpenCommission == open_commission = SumCommission(open_trades)

\* The position is on the other side after the fill f than before it.
SideChanged(f) ==
    /\ f.size_after # 0
    /\ Sgn(f.size_after) = -Sgn(f.size_before)

\* C32: fill_order returns true exactly when the side of the position has
\* changed, that is when the position sign after the call is the non-zero
\* opposite of the sign before the call, and false in every other case.
C32_ReturnsSideChange == \A f \in Fills : f.ret <=> SideChanged(f)

\* C33: in every reachable state position.size is 0 if and only if
\* open_trades is empty: the position is never flat while trades are still
\* listed as open, and never non-zero without open trades.
C33_FlatIffNoOpenTrades == (size = 0) <=> (open_trades = <<>>)

\* C34: every fill that process_orders makes for a non-market order (limit,
\* stop or triggered trailing stop, the close-price check of the second
\* pass included) is at a price inside the range of the current bar,
\* l <= fill price <= h.
C34_FillsInsideBar ==
    last_op = "process_orders" =>
        \A f \in Fills :
            ~f.order.is_market_order => l <= f.price /\ f.price <= h

\* No trade of the sequence has a negative max_drawdown or max_runup.
ExtremesNonNegative(trades) ==
    \A i \in 1..Len(trades) :
        /\ RLe(RZero, trades[i].max_drawdown)
        /\ RLe(RZero, trades[i].max_runup)

\* C35: max_drawdown and max_runup of every trade, open or closed, are
\* never negative after process_orders, also for a losing trade that is
\* entered and exited on the same bar.
C35_ExtremesNonNegative ==
    last_op = "process_orders" =>
        /\ ExtremesNonNegative(open_trades)
        /\ ExtremesNonNegative(closed_trades)

\* A fill of a Close order for less than the position, against trades
\* that are all on the side of the position and all in its reach.
IsPartialClose(f) ==
    /\ f.order.order_type = _order_type_close
    /\ f.order.size # 0
    /\ Sgn(f.order.size) = -Sgn(f.size_before)
    /\ Abs(f.order.size) < Abs(f.size_before)
    /\ \A i \in 1..Len(f.trades_before) :
          /\ f.trades_before[i].sign = Sgn(f.size_before)
          /\ f.order.order_id \in {f.trades_before[i].entry_id, NoneId}

\* C36: a closing fill conserves size: when a Close order of magnitude q
\* is filled against a position of magnitude Q > q, the position keeps
\* magnitude exactly Q - q and the sizes of the closed trades sum to q,
\* also when the remainder Q - q is exactly one size step.
C36_CloseConservesSize ==
    \A f \in Fills :
        IsPartialClose(f) =>
            /\ f.size_after = f.size_before + f.order.size
            /\ SumAbsSize(f.closed) = Abs(f.order.size)

\* C37: whenever the position is flat (no open trades), netprofit equals
\* grossprofit - grossloss, for each of the three commission models and
\* with partial closes: the profit recorded on the closed trades accounts
\* for everything that was debited from or credited to netprofit.
C37_NetIsGrossWhenFlat ==
    open_trades = <<>> /\ size = 0 =>
        RIsZero(RSub(netprofit, RSub(grossprofit, grossloss)))

\* C38: while risk_max_position_size is set to a cap M from the start,
\* |position.size| never exceeds M after any sequence of entry() calls and
\* process_orders runs, also when several entry orders with different ids
\* are pending in the same bar.
C38_PositionUnderCap ==
    IsVal(risk_max_position_size) =>
        RLe(R(Abs(size)), risk_max_position_size.v)

\* The sizes of the trades that the fills of the log fs have closed for
\* the Close order stored under exit_id.
RECURSIVE ClosedFor(_, _)
ClosedFor(fs, exit_id) ==
    IF fs = <<>> THEN 0
    ELSE (IF /\ Head(fs).order.order_type = _order_type_close
             /\ Head(fs).order.exit_id = exit_id
          THEN SumAbsSize(Head(fs).closed) ELSE 0)
         + ClosedFor(Tail(fs), exit_id)

\* A process_orders run closes for no pending Close order more than the
\* size the order has when the run begins.
C39_Step ==
    last_op' = "process_orders" =>
        \A i \in 1..Len(exit_orders) :
            ClosedFor(fills', exit_orders[i].exit_id)
                <= Abs(exit_orders[i].size)

\* C39: a Close order never closes more than it was issued for: over one
\* process_orders run, in which the same order can be checked by the stop
\* check, the limit check and the close-price check of both passes, the
\* sizes of the trades it closes sum to at most the |size| it had when it
\* was issued.
C39_ClosesAtMostIssued == [][C39_Step]_vars

\* The trades of a sequence that another entry than id has opened.
OpenedByOthers(trades, id) == SelectSeq(trades, LAMBDA t : t.entry_id # id)

\* A fill of a Close order that carries an order_id.
IsCloseById(f) ==
    /\ f.order.order_type = _order_type_close
    /\ f.order.order_id # NoneId

\* C40: a Close order that carries an order_id (created by
\* exit(from_entry=...) or close(id)) only ever closes trades whose
\* entry_id equals that order_id; the trades opened by other entry ids
\* keep their size, and the order closes nothing while no trade with that
\* entry_id is open.
C40_ClosesOnlyItsEntry ==
    \A f \in Fills :
        IsCloseById(f) =>
            /\ \A i \in 1..Len(f.closed) :
                  f.closed[i].entry_id = f.order.order_id
            /\ OpenedByOthers(f.trades_after, f.order.order_id)
                  = OpenedByOthers(f.trades_before, f.order.order_id)
            /\ OpenedByOthers(f.trades_before, f.order.order_id)
                  = f.trades_before => f.closed = <<>>

\* C40 witness: a Close order for the entry A is filled while trades of A
\* and of B are open; it closes a trade of A and the trade of B is still
\* open with its size.
C40_Witness ==
    \E f \in Fills :
        /\ IsCloseById(f)
        /\ f.order.order_id = "A"
        /\ f.closed # <<>>
        /\ \A i \in 1..Len(f.closed) : f.closed[i].entry_id = "A"
        /\ OpenedByOthers(f.trades_before, "A") # <<>>
        /\ OpenedByOthers(f.trades_after, "A")
              = OpenedByOthers(f.trades_before, "A")

\* The trades closed by a log of fills, as (fill, trade) index pairs.
ClosedByFills(fs) ==
    UNION {{<<i, j>> : j \in 1..Len(fs[i].closed)} : i \in 1..Len(fs)}

\* One step of the ledger as C7 has it: the count goes up by the trades
\* the step closed, the deque takes them at its tail and drops as many of
\* its oldest as the bound asks for, and keeps the rest in place.
C7_Step ==
    \E n \in {Cardinality(ClosedByFills(fills'))} :
        \E kept \in {IF Len(closed_trades) + n <= ClosedTradesMaxlen
                      THEN Len(closed_trades)
                      ELSE IF n <= ClosedTradesMaxlen
                      THEN ClosedTradesMaxlen - n ELSE 0} :
            /\ closed_trades_count' = closed_trades_count + n
            /\ Len(closed_trades') =
                  IF kept + n <= ClosedTradesMaxlen THEN kept + n
                  ELSE ClosedTradesMaxlen
            /\ SubSeq(closed_trades', 1, kept) =
                  SubSeq(closed_trades, Len(closed_trades) - kept + 1,
                         Len(closed_trades))

\* C7: closed_trades never holds more than 9000 trades, the oldest being
\* the ones evicted on overflow, while closed_trades_count never decreases
\* and counts every close.
C7_ClosedTradesRing ==
    /\ [](Len(closed_trades) <= ClosedTradesMaxlen)
    /\ [][C7_Step]_vars

\* C7 witness: the 9001st close has happened; the deque is full and the
\* trade closed first is no longer in it.
C7_Witness ==
    /\ closed_trades_count = ClosedTradesMaxlen + 1
    /\ Len(closed_trades) = ClosedTradesMaxlen
    /\ closed_trades[1].exit_equity # new_closed_trades[1].exit_equity
    /\ closed_trades[1] = new_closed_trades[2]

====
